---------------------------- MODULE Spec2Model ----------------------------
(***************************************************************************)
(* A model of the chunked density-matrix evolution engine of               *)
(* src/simulators/density_matrix/densitymatrix_state.hpp                   *)
(* (AER::DensityMatrix::State).                                            *)
(*                                                                         *)
(* The density matrix of n qubits is the vector of 4^n complex numbers     *)
(* data[row + 2^n * col]: bits 0..n-1 of an index are the ket (row) bits,  *)
(* bits n..2n-1 the bra (column) bits.  Numbers are exact: elements of     *)
(* Q(i), the values 1/sqrt(p) a measurement projector is built from, and   *)
(* one non-finite value standing for the IEEE infinities and NaN.          *)
(***************************************************************************)
EXTENDS Integers, Sequences, FiniteSets, TLC

(***************************************************************************)
(* Bounds of the model.                                                    *)
(***************************************************************************)
\* qubits of the register in the single-chunk specifications
NQ == 2
\* qubits of the register in the multi-chunk specification
NQC == 3
\* operations applied in one run
MaxOps == 2
\* operations applied to the chunks in one run
MaxChunkOps == 1
\* shots of one sample_measure call
MaxShots == 2
MaxThreads == 3
MaxAmps == 3

(***************************************************************************)
(* Integers and bits (uint_t arithmetic; no value of the model comes near  *)
(* 2^64).                                                                  *)
(***************************************************************************)
Abs(x) == IF x < 0 THEN -x ELSE x

RECURSIVE GCD(_, _)
GCD(a, b) == IF b = 0 THEN a ELSE GCD(b, a % b)

Pow2(k) == 2 ^ k

\* bit k of x: (x >> k) & 1
Bit(x, k) == (x \div Pow2(k)) % 2

\* x >> k
Shr(x, k) == x \div Pow2(k)

\* x & y
RECURSIVE BitAnd(_, _)
BitAnd(x, y) ==
  IF x = 0 \/ y = 0 THEN 0
  ELSE (x % 2) * (y % 2) + 2 * BitAnd(x \div 2, y \div 2)

\* x | y
RECURSIVE BitOr(_, _)
BitOr(x, y) ==
  IF x = 0 THEN y
  ELSE IF y = 0 THEN x
  ELSE (IF x % 2 = 1 \/ y % 2 = 1 THEN 1 ELSE 0) + 2 * BitOr(x \div 2, y \div 2)

\* x with bit k set / cleared / flipped
SetBit(x, k) == IF Bit(x, k) = 1 THEN x ELSE x + Pow2(k)
ClearBit(x, k) == IF Bit(x, k) = 1 THEN x - Pow2(k) ELSE x
FlipBit(x, k) == IF Bit(x, k) = 1 THEN x - Pow2(k) ELSE x + Pow2(k)

Range(s) == {s[i] : i \in 1..Len(s)}

\* the sum of a sequence of numbers
RECURSIVE SumNat(_)
SumNat(s) == IF Len(s) = 0 THEN 0 ELSE s[1] + SumNat(Tail(s))

\* the sequence f(s[1]), f(s[2]), ...
MapSeq(s, f(_)) == [i \in 1..Len(s) |-> f(s[i])]

(***************************************************************************)
(* Complex numbers (complex_t), exact.  <<re, im, re2, im2, den, rad>> is  *)
(*   (re + i*im + sqrt(2) * (re2 + i*im2)) / den * 1/sqrt(p),              *)
(* in lowest terms, where rad = <<a, c, d>> is the real p = (a +           *)
(* c*sqrt(2))/d > 0 and NoRad says there is none.  This field holds every    *)
(* entry of the catalog's gates at angles that are multiples of pi/4, and  *)
(* the root is what a measurement projector is built from.  den = 0 is the *)
(* non-finite value (the IEEE infinities and NaN).                         *)
(***************************************************************************)
NoRad == <<>>

Zero == <<0, 0, 0, 0, 1, NoRad>>
One == <<1, 0, 0, 0, 1, NoRad>>
NonFinite == <<0, 0, 0, 0, 0, NoRad>>

IsFinite(x) == x[5] # 0

\* (a + i*b + sqrt(2) * (c + i*e)) / d / sqrt(rad) in lowest terms, d # 0
Norm(a, b, c, e, d, rad) ==
  IF a = 0 /\ b = 0 /\ c = 0 /\ e = 0 THEN Zero
  ELSE LET g == GCD(GCD(GCD(Abs(a), Abs(b)), GCD(Abs(c), Abs(e))), Abs(d))
           s == IF d < 0 THEN -g ELSE g
       IN <<a \div s, b \div s, c \div s, e \div s, d \div s, rad>>

\* the rational a/d, the Gaussian integer a + i*b, and (a + c*sqrt(2))/d
Rat(a, d) == Norm(a, 0, 0, 0, d, NoRad)
Cplx(a, b) == Norm(a, b, 0, 0, 1, NoRad)
Real2(a, c, d) == Norm(a, 0, c, 0, d, NoRad)
ImagUnit == Cplx(0, 1)
MinusOne == Cplx(-1, 0)
\* 1/sqrt(2)
InvSqrt2 == Real2(0, 1, 2)

Conj(x) == <<x[1], -x[2], x[3], -x[4], x[5], x[6]>>
Neg(x) == <<-x[1], -x[2], -x[3], -x[4], x[5], x[6]>>
RealPart(x) ==
  IF x[5] = 0 THEN NonFinite ELSE Norm(x[1], 0, x[3], 0, x[5], x[6])

\* the product of the parts without root
MulQ(x, y, rad) ==
  Norm(x[1] * y[1] - x[2] * y[2] + 2 * (x[3] * y[3] - x[4] * y[4]),
       x[1] * y[2] + x[2] * y[1] + 2 * (x[3] * y[4] + x[4] * y[3]),
       x[1] * y[3] - x[2] * y[4] + x[3] * y[1] - x[4] * y[2],
       x[1] * y[4] + x[2] * y[3] + x[3] * y[2] + x[4] * y[1],
       x[5] * y[5], rad)

\* 1/p for the real p = (a + c*sqrt(2))/d # 0
InvReal(rad) ==
  Real2(rad[3] * rad[1], -(rad[3] * rad[2]),
        rad[1] * rad[1] - 2 * rad[2] * rad[2])

\* x * y.  1/sqrt(p) * 1/sqrt(p) = 1/p; inf * 0 = NaN and inf * z = inf are
\* both the non-finite value.  (The product of two different roots does not
\* arise: a projector is built from one probability.)
Mul(x, y) ==
  IF x[5] = 0 \/ y[5] = 0 THEN NonFinite
  ELSE IF x[6] = y[6]
  THEN IF x[6] = NoRad THEN MulQ(x, y, NoRad)
       ELSE MulQ(MulQ(x, y, NoRad), InvReal(x[6]), NoRad)
  ELSE MulQ(x, y, IF x[6] = NoRad THEN y[6] ELSE x[6])

\* x + y, of two numbers with the same root (every sum of the model is a sum
\* of buffer entries, which have none)
Add(x, y) ==
  IF x[5] = 0 \/ y[5] = 0 THEN NonFinite
  ELSE IF x = Zero THEN y
  ELSE IF y = Zero THEN x
  ELSE Norm(x[1] * y[5] + y[1] * x[5], x[2] * y[5] + y[2] * x[5],
            x[3] * y[5] + y[3] * x[5], x[4] * y[5] + y[4] * x[5],
            x[5] * y[5], x[6])

\* the sign of the real a + c*sqrt(2)
Sign2(a, c) ==
  IF a >= 0 /\ c >= 0 THEN (IF a = 0 /\ c = 0 THEN 0 ELSE 1)
  ELSE IF a <= 0 /\ c <= 0 THEN -1
  ELSE IF a > 0 THEN (IF a * a > 2 * c * c THEN 1 ELSE -1)
  ELSE (IF 2 * c * c > a * a THEN 1 ELSE -1)

\* the sign of a finite real without root
Sign(x) == Sign2(x[1], x[3])

\* x < y for two finite reals without root
Less(x, y) == Sign(Add(y, Neg(x))) > 0

\* 1. / std::sqrt(p) for a real p: inf for p = 0, NaN for p < 0
InvSqrt(p) ==
  IF p[5] = 0 \/ Sign(p) <= 0 THEN NonFinite
  ELSE IF p = One THEN One
  ELSE Norm(1, 0, 0, 0, 1, <<p[1], p[3], p[5]>>)

\* std::exp(complex_t(0., 1.) * theta) for theta = k * pi/4
ExpI(k) ==
  CASE k % 8 = 0 -> One
    [] k % 8 = 1 -> Norm(0, 0, 1, 1, 2, NoRad)
    [] k % 8 = 2 -> ImagUnit
    [] k % 8 = 3 -> Norm(0, 0, -1, 1, 2, NoRad)
    [] k % 8 = 4 -> MinusOne
    [] k % 8 = 5 -> Norm(0, 0, -1, -1, 2, NoRad)
    [] k % 8 = 6 -> Neg(ImagUnit)
    [] OTHER -> Norm(0, 0, 1, -1, 2, NoRad)

\* cos(theta) and sin(theta) for theta = k * pi/4
Cos(k) == RealPart(ExpI(k))
Sin(k) == RealPart(Mul(Neg(ImagUnit), ExpI(k)))

\* the sum of f(j) over j = lo..hi
RECURSIVE SumOver(_, _, _)
SumOver(f(_), lo, hi) ==
  IF lo > hi THEN Zero ELSE Add(f(lo), SumOver(f, lo + 1, hi))

(***************************************************************************)
(* Vectors and matrices.  A vector (cvector_t, rvector_t, the buffer) is a  *)
(* function on 0..size-1; a matrix (cmatrix_t) is [rows, cols, data] with   *)
(* data[r + rows * c], column-major as matrix.hpp stores it.                *)
(***************************************************************************)
Size(v) == Cardinality(DOMAIN v)

ConstVec(size, x) == [i \in 0..(size - 1) |-> x]

\* AER::Utils::conjugate
Conjugate(v) == [i \in DOMAIN v |-> Conj(v[i])]

\* AER::Utils::tensor_product(a, b): entry i * |b| + j is a[i] * b[j]
TensorProduct(a, b) ==
  [k \in 0..(Size(a) * Size(b) - 1) |-> Mul(a[k \div Size(b)], b[k % Size(b)])]

\* AER::Utils::int2reg(n, 2, size): the bits of n, least significant first
RECURSIVE Int2Reg(_, _)
Int2Reg(n, size) ==
  IF size = 0 THEN <<>> ELSE <<n % 2>> \o Int2Reg(n \div 2, size - 1)

\* std::sort of a qubit list
RECURSIVE SortQubits(_)
SortQubits(s) ==
  IF Len(s) = 0 THEN <<>>
  ELSE LET m == CHOOSE i \in 1..Len(s) : \A j \in 1..Len(s) : s[i] <= s[j]
       IN <<s[m]>> \o SortQubits([i \in 1..(Len(s) - 1) |-> IF i < m THEN s[i] ELSE s[i + 1]])

(***************************************************************************)
(* The buffer primitive QV::DensityMatrix (densitymatrix.hpp) and its base *)
(* QV::QubitVector.  sv_* act on the bits of the vector (statevector       *)
(* style); dm_* act on a qubit's ket bit q with U and on its bra bit q + n *)
(* with the conjugate of U (U rho U^dagger).                               *)
(***************************************************************************)
\* the bits of index i at the positions qs, as a number (qs[1] least)
RECURSIVE SubIndex(_, _)
SubIndex(i, qs) ==
  IF Len(qs) = 0 THEN 0 ELSE Bit(i, qs[1]) + 2 * SubIndex(i, Tail(qs))

\* index i with the bits at the positions qs replaced by those of j
RECURSIVE WithBits(_, _, _)
WithBits(i, qs, j) ==
  IF Len(qs) = 0 THEN i
  ELSE WithBits(IF j % 2 = 1 THEN SetBit(i, qs[1]) ELSE ClearBit(i, qs[1]),
                Tail(qs), j \div 2)

AllSet(i, qs) == \A t \in 1..Len(qs) : Bit(i, qs[t]) = 1

Controls(qs) == SubSeq(qs, 1, Len(qs) - 1)
Target(qs) == qs[Len(qs)]

\* QubitVector::apply_mcx: X on the last qubit where every other one is 1
sv_apply_mcx(buf, qs) ==
  [i \in DOMAIN buf |->
     IF AllSet(i, Controls(qs)) THEN buf[FlipBit(i, Target(qs))] ELSE buf[i]]

\* Y = [[0, -i], [i, 0]] (cj: its conjugate) on the last qubit where every
\* other one is 1
sv_mcy(buf, qs, cj) ==
  [i \in DOMAIN buf |->
     IF AllSet(i, Controls(qs))
     THEN LET v == Mul(ImagUnit, buf[FlipBit(i, Target(qs))])
          IN IF (Bit(i, Target(qs)) = 1) = cj THEN Neg(v) ELSE v
     ELSE buf[i]]

\* QubitVector::apply_mcy
sv_apply_mcy(buf, qs) == sv_mcy(buf, qs, FALSE)

\* QubitVector::apply_mcphase: times phase where every qubit is 1
sv_apply_mcphase(buf, qs, phase) ==
  [i \in DOMAIN buf |-> IF AllSet(i, qs) THEN Mul(phase, buf[i]) ELSE buf[i]]

\* QubitVector::apply_mcswap on two qubits
sv_apply_swap(buf, q0, q1) ==
  [i \in DOMAIN buf |->
     IF Bit(i, q0) # Bit(i, q1) THEN buf[FlipBit(FlipBit(i, q0), q1)] ELSE buf[i]]

\* QubitVector::apply_diagonal_matrix
sv_apply_diagonal_matrix(buf, qs, diag) ==
  [i \in DOMAIN buf |-> Mul(diag[SubIndex(i, qs)], buf[i])]

\* QubitVector::apply_matrix with the vectorized matrix vmat[r + dim * c]
sv_apply_matrix(buf, qs, vmat) ==
  LET dim == Pow2(Len(qs))
  IN [i \in DOMAIN buf |->
        LET term(j) == Mul(vmat[SubIndex(i, qs) + dim * j], buf[WithBits(i, qs, j)])
        IN SumOver(term, 0, dim - 1)]

\* DensityMatrix::superop_qubits: the ket bits, then the bra bits
superop_qubits(qs, n) == qs \o [t \in 1..Len(qs) |-> qs[t] + n]

Shifted(qs, n) == [t \in 1..Len(qs) |-> qs[t] + n]

dm_apply_x(buf, n, q) == sv_apply_mcx(sv_apply_mcx(buf, <<q>>), <<q + n>>)
dm_apply_y(buf, n, q) == sv_mcy(sv_mcy(buf, <<q>>, FALSE), <<q + n>>, TRUE)
dm_apply_cnot(buf, n, c, t) ==
  sv_apply_mcx(sv_apply_mcx(buf, <<c, t>>), <<c + n, t + n>>)
dm_apply_cy(buf, n, c, t) ==
  sv_mcy(sv_mcy(buf, <<c, t>>, FALSE), <<c + n, t + n>>, TRUE)
dm_apply_cphase(buf, n, q0, q1, phase) ==
  sv_apply_mcphase(sv_apply_mcphase(buf, <<q0, q1>>, phase),
                   <<q0 + n, q1 + n>>, Conj(phase))
dm_apply_swap(buf, n, q0, q1) ==
  sv_apply_swap(sv_apply_swap(buf, q0, q1), q0 + n, q1 + n)
dm_apply_toffoli(buf, n, c0, c1, t) ==
  sv_apply_mcx(sv_apply_mcx(buf, <<c0, c1, t>>), <<c0 + n, c1 + n, t + n>>)

\* DensityMatrix::apply_diagonal_unitary_matrix: conj(diag) (x) diag on the
\* superoperator qubits
dm_apply_diagonal_unitary_matrix(buf, n, qs, diag) ==
  sv_apply_diagonal_matrix(buf, superop_qubits(qs, n),
                           TensorProduct(Conjugate(diag), diag))

\* DensityMatrix::apply_unitary_matrix: U on the ket bits, conj(U) on the bra
\* bits
dm_apply_unitary_matrix(buf, n, qs, vmat) ==
  sv_apply_matrix(sv_apply_matrix(buf, qs, vmat), Shifted(qs, n), Conjugate(vmat))

\* DensityMatrix::apply_superop_matrix: a 4^k x 4^k matrix on the
\* superoperator qubits
dm_apply_superop_matrix(buf, n, qs, vmat) ==
  sv_apply_matrix(buf, superop_qubits(qs, n), vmat)

\* DensityMatrix::probability(outcome): the real part of a diagonal entry
dm_probability(buf, n, outcome) == RealPart(buf[outcome * (Pow2(n) + 1)])

\* DensityMatrix::trace
dm_trace(buf, n) ==
  LET d(k) == buf[k * (Pow2(n) + 1)] IN SumOver(d, 0, Pow2(n) - 1)

\* DensityMatrix::probabilities(qubits): entry m sums the probabilities of
\* the outcomes whose bits at qubits are those of m
dm_probabilities(buf, n, qs) ==
  [m \in 0..(Pow2(Len(qs)) - 1) |->
     LET p(x) == IF SubIndex(x, qs) = m THEN dm_probability(buf, n, x) ELSE Zero
     IN SumOver(p, 0, Pow2(n) - 1)]

\* DensityMatrix::sample_measure of one random number: the first outcome
\* whose cumulative probability exceeds rnd, the last outcome when none does
RECURSIVE SampleFrom(_, _, _, _, _)
SampleFrom(buf, n, rnd, sample, p) ==
  IF sample >= Pow2(n) - 1 THEN sample
  ELSE LET p1 == Add(p, dm_probability(buf, n, sample))
       IN IF Less(rnd, p1) THEN sample ELSE SampleFrom(buf, n, rnd, sample + 1, p1)

dm_sample_measure(buf, n, rnds) ==
  [i \in 1..Len(rnds) |-> SampleFrom(buf, n, rnds[i], 0, Zero)]

\* QubitVector::apply_pauli: letter pauli[N - i] acts on qubit qs[i + 1]
\* (the string is written most significant qubit first), times coeff
RECURSIVE sv_pauli_from(_, _, _, _)
sv_pauli_from(buf, qs, pauli, t) ==
  IF t > Len(qs) THEN buf
  ELSE LET c == pauli[Len(qs) + 1 - t]
           b == CASE c = "X" -> sv_apply_mcx(buf, <<qs[t]>>)
                  [] c = "Y" -> sv_apply_mcy(buf, <<qs[t]>>)
                  [] c = "Z" -> sv_apply_mcphase(buf, <<qs[t]>>, MinusOne)
                  [] OTHER -> buf
       IN sv_pauli_from(b, qs, pauli, t + 1)

sv_apply_pauli(buf, qs, pauli, coeff) ==
  LET b == sv_pauli_from(buf, qs, pauli, 1)
  IN [i \in DOMAIN b |-> Mul(coeff, b[i])]

(***************************************************************************)
(* Gate matrices (Linalg::VMatrix of framework/linalg), vectorized         *)
(* column-major: entry r + dim * c.  A rotation angle theta is given in    *)
(* units of pi/2 (its half is a multiple of pi/4), a phase angle in units  *)
(* of pi/4.                                                                *)
(***************************************************************************)
\* the vectorized dim x dim matrix with the entries m[r + 1][c + 1]
VMat(m) ==
  [k \in 0..(Len(m) * Len(m) - 1) |-> m[(k % Len(m)) + 1][(k \div Len(m)) + 1]]

Scale(x, v) == [k \in DOMAIN v |-> Mul(x, v[k])]

\* -i * x
MinusI(x) == Mul(Neg(ImagUnit), x)

VMatrix_u3(theta, phi, lambda) ==
  VMat(<< <<Cos(theta), Neg(Mul(ExpI(lambda), Sin(theta)))>>,
          <<Mul(ExpI(phi), Sin(theta)), Mul(ExpI(phi + lambda), Cos(theta))>> >>)

VMatrix_r(theta, phi) ==
  VMat(<< <<Cos(theta), MinusI(Mul(ExpI(8 - (phi % 8)), Sin(theta)))>>,
          <<MinusI(Mul(ExpI(phi), Sin(theta))), Cos(theta)>> >>)

VMatrix_rx(theta) ==
  VMat(<< <<Cos(theta), MinusI(Sin(theta))>>,
          <<MinusI(Sin(theta)), Cos(theta)>> >>)

VMatrix_ry(theta) ==
  VMat(<< <<Cos(theta), Neg(Sin(theta))>>,
          <<Sin(theta), Cos(theta)>> >>)

VMatrix_rz_diag(theta) == [k \in 0..1 |-> IF k = 0 THEN ExpI(8 - (theta % 8)) ELSE ExpI(theta)]

VMatrix_rzz_diag(theta) ==
  [k \in 0..3 |-> IF k \in {0, 3} THEN ExpI(8 - (theta % 8)) ELSE ExpI(theta)]

\* cos(theta/2) * 1 - i * sin(theta/2) * P for a matrix P of 0, 1, -1, i, -i
RotationAbout(theta, P) ==
  [k \in DOMAIN P |->
     Add(IF k % 4 = k \div 4 THEN Cos(theta) ELSE Zero,
         MinusI(Mul(Sin(theta), P[k])))]

PauliXX ==
  VMat(<< <<Zero, Zero, Zero, One>>, <<Zero, Zero, One, Zero>>,
          <<Zero, One, Zero, Zero>>, <<One, Zero, Zero, Zero>> >>)
PauliYY ==
  VMat(<< <<Zero, Zero, Zero, MinusOne>>, <<Zero, Zero, One, Zero>>,
          <<Zero, One, Zero, Zero>>, <<MinusOne, Zero, Zero, Zero>> >>)
\* Z on the first qubit, X on the second
PauliZX ==
  VMat(<< <<Zero, Zero, One, Zero>>, <<Zero, Zero, Zero, MinusOne>>,
          <<One, Zero, Zero, Zero>>, <<Zero, MinusOne, Zero, Zero>> >>)

VMatrix_rxx(theta) == RotationAbout(theta, PauliXX)
VMatrix_ryy(theta) == RotationAbout(theta, PauliYY)
VMatrix_rzx(theta) == RotationAbout(theta, PauliZX)

VMatrix_SX ==
  Scale(Rat(1, 2), VMat(<< <<Cplx(1, 1), Cplx(1, -1)>>, <<Cplx(1, -1), Cplx(1, 1)>> >>))
VMatrix_SXDG == Conjugate(VMatrix_SX)

VMatrix_ECR ==
  Scale(InvSqrt2,
        VMat(<< <<Zero, One, Zero, ImagUnit>>, <<One, Zero, Neg(ImagUnit), Zero>>,
                <<Zero, ImagUnit, Zero, One>>, <<Neg(ImagUnit), Zero, One, Zero>> >>))

(***************************************************************************)
(* Operations (Operations::Op).  A name is the sequence of its characters. *)
(* qubits, memory, registers, int_params and a gate's params are           *)
(* sequences; a diagonal's or a state vector's params and the data of a    *)
(* matrix are vectors.                                                     *)
(***************************************************************************)
StartsWith(name, prefix) ==
  Len(name) >= Len(prefix) /\ SubSeq(name, 1, Len(prefix)) = prefix

\* op.name[0] == 'c' || op.name.find("mc") == 0
IsControlledName(name) == StartsWith(name, <<"c">>) \/ StartsWith(name, <<"m", "c">>)

\* operand i of a list, 0-based as in the code; -1 stands for the value an
\* out-of-bounds read returns
At(qs, i) == IF i < Len(qs) THEN qs[i + 1] ELSE -1

(***************************************************************************)
(* Chunk addressing (simulators/chunk_utils.hpp).                          *)
(***************************************************************************)
\* Chunk::get_inout_ctrl_qubits: the operands inside the chunk and those
\* that address a bit of the chunk index, in operand order
get_inout_ctrl_qubits(op, num_qubits) ==
  LET inside(q) == q < num_qubits
      outside(q) == q >= num_qubits
  IN [qubits_in |-> SelectSeq(op.qubits, inside),
      qubits_out |-> SelectSeq(op.qubits, outside)]

\* Chunk::correct_gate_op_in_chunk: the operation on the in-chunk operands,
\* named as the gate that is left once the controls outside the chunk are
\* taken as set (the names apply_gate_statevector accepts: x, cx, y, z, u1)
correct_gate_op_in_chunk(op, qubits_in) ==
  LET name ==
        IF op.name = <<"c", "c", "x">>
        THEN (IF Len(qubits_in) = 1 THEN <<"x">> ELSE <<"c", "x">>)
        ELSE IF Len(qubits_in) = 1 /\ StartsWith(op.name, <<"c">>)
        THEN (IF Tail(op.name) = <<"p">> THEN <<"u", "1">> ELSE Tail(op.name))
        ELSE op.name
  IN [op EXCEPT !.name = name, !.qubits = qubits_in]

\* Chunk::block_diagonal_matrix(gid, chunk_bits, qubits, diag): the diagonal
\* on the in-chunk qubits that is left once each qubit q >= chunk_bits is
\* fixed to bit q - chunk_bits of gid
block_diagonal_matrix(gid, chunk_bits, qubits, diag) ==
  LET inside(q) == q < chunk_bits
      qubits_in == SelectSeq(qubits, inside)
      \* the index into diag of entry i of the block: bit k - 1 is bit i's
      \* for an in-chunk qubit, gid's for one outside
      full(i) ==
        LET bit(k) == IF inside(qubits[k])
                      THEN Bit(i, Cardinality({j \in 1..k : inside(qubits[j])}) - 1)
                      ELSE Bit(gid, qubits[k] - chunk_bits)
        IN SumNat([k \in 1..Len(qubits) |-> bit(k) * Pow2(k - 1)])
  IN [qubits |-> qubits_in,
      diag |-> [i \in 0..(Pow2(Len(qubits_in)) - 1) |-> diag[full(i)]]]

(***************************************************************************)
(* The state object.  S = [buf, n, N, cidx, err, calls, ub]:               *)
(*   buf    qreg_: the chunk's vector of 4^n numbers                       *)
(*   n      qreg_.num_qubits(), the qubits of the chunk                    *)
(*   N      num_global_qubits_, the qubits of the register                 *)
(*   cidx   qreg_.chunk_index()                                            *)
(*   err    the exception thrown, <<>> when none                           *)
(*   calls  the buffer primitives called, in order                         *)
(*   ub     a primitive was called with a qubit outside the buffer, with   *)
(*          one qubit twice or with no qubit to act on                     *)
(*   creg   BaseState::creg(): the classical memory and register bits      *)
(*   result the ExperimentResult the caller passes: what was saved         *)
(*   rng    the RngEngine the caller passes: the numbers drawn from it     *)
(***************************************************************************)
NoError == <<>>

\* the template's default buffer, QV::DensityMatrix<double>, does not index
\* globally
support_global_indexing == FALSE

Throw(S, what, name) == [S EXCEPT !.err = <<what, name>>]

Distinct(qs) == \A i, j \in 1..Len(qs) : i # j => qs[i] # qs[j]

\* a call of a two-sided primitive (dm) or of a statevector primitive (sv) on
\* the qubits qs with the argument arg, giving the buffer newbuf
Call(S, side, fn, qs, arg, newbuf) ==
  LET limit == IF side = "dm" THEN S.n ELSE 2 * S.n
      ok == /\ Distinct(qs)
            /\ \A t \in 1..Len(qs) : qs[t] >= 0 /\ qs[t] < limit
            /\ (Len(qs) > 0 \/ fn = "apply_diagonal_matrix")
  IN IF S.err # NoError THEN S
     ELSE [S EXCEPT !.calls = Append(@, [side |-> side, fn |-> fn, qubits |-> qs,
                                         arg |-> arg]),
                    !.ub = @ \/ ~ok,
                    !.buf = IF ok /\ ~S.ub THEN newbuf ELSE @]

(***************************************************************************)
(* State<densmat_t>: the gate catalog and the unitary application engine.  *)
(***************************************************************************)
\* gateset_: the Gates member of a name, "" when gateset_.find fails
gateset_(name) ==
  CASE name \in {<<"d", "e", "l", "a", "y">>, <<"i", "d">>} -> "id"
    [] name = <<"x">> -> "x"
    [] name = <<"y">> -> "y"
    [] name = <<"z">> -> "z"
    [] name = <<"s">> -> "s"
    [] name = <<"s", "d", "g">> -> "sdg"
    [] name = <<"h">> -> "h"
    [] name = <<"t">> -> "t"
    [] name = <<"t", "d", "g">> -> "tdg"
    [] name \in {<<"x", "9", "0">>, <<"s", "x">>} -> "sx"
    [] name = <<"s", "x", "d", "g">> -> "sxdg"
    [] name = <<"r">> -> "r"
    [] name = <<"r", "x">> -> "rx"
    [] name = <<"r", "y">> -> "ry"
    [] name = <<"r", "z">> -> "rz"
    [] name \in {<<"p">>, <<"u", "1">>} -> "u1"
    [] name = <<"u", "2">> -> "u2"
    [] name \in {<<"u", "3">>, <<"u">>, <<"U">>} -> "u3"
    [] name \in {<<"C", "X">>, <<"c", "x">>} -> "cx"
    [] name = <<"c", "y">> -> "cy"
    [] name = <<"c", "z">> -> "cz"
    [] name \in {<<"c", "p">>, <<"c", "u", "1">>} -> "cp"
    [] name = <<"s", "w", "a", "p">> -> "swap"
    [] name = <<"r", "x", "x">> -> "rxx"
    [] name = <<"r", "y", "y">> -> "ryy"
    [] name = <<"r", "z", "z">> -> "rzz"
    [] name = <<"r", "z", "x">> -> "rzx"
    [] name = <<"e", "c", "r">> -> "ecr"
    [] name = <<"c", "c", "x">> -> "ccx"
    [] name = <<"p", "a", "u", "l", "i">> -> "pauli"
    [] OTHER -> ""

\* the split diagonal with the column part not conjugated
apply_diagonal_unitary_matrix_unconjugated(S, qubits, diag) ==
  IF S.N > S.n /\ ~support_global_indexing
  THEN LET blk_in == block_diagonal_matrix(S.cidx, S.n, qubits, diag)
       IN IF Len(blk_in.qubits) = Len(qubits)
          THEN Call(S, "dm", "apply_diagonal_unitary_matrix", qubits, diag,
                    dm_apply_diagonal_unitary_matrix(S.buf, S.n, qubits, diag))
          ELSE LET qubits_row ==
                     [i \in 1..Len(qubits) |->
                        IF qubits[i] >= S.n THEN qubits[i] + S.N - S.n ELSE qubits[i]]
                   blk_row == block_diagonal_matrix(S.cidx, S.n, qubits_row, diag)
                   qubits_chunk == blk_in.qubits \o Shifted(blk_in.qubits, S.n)
                   d == TensorProduct(blk_row.diag, blk_in.diag)
               IN Call(S, "sv", "apply_diagonal_matrix", qubits_chunk, d,
                       sv_apply_diagonal_matrix(S.buf, qubits_chunk, d))
  ELSE Call(S, "dm", "apply_diagonal_unitary_matrix", qubits, diag,
            dm_apply_diagonal_unitary_matrix(S.buf, S.n, qubits, diag))

\* State::apply_diagonal_unitary_matrix
apply_diagonal_unitary_matrix(S, qubits, diag) ==
  IF S.N > S.n /\ ~support_global_indexing
  THEN LET blk_in == block_diagonal_matrix(S.cidx, S.n, qubits, diag)
       IN IF Len(blk_in.qubits) = Len(qubits)
          THEN Call(S, "dm", "apply_diagonal_unitary_matrix", qubits, diag,
                    dm_apply_diagonal_unitary_matrix(S.buf, S.n, qubits, diag))
          ELSE LET qubits_row ==
                     [i \in 1..Len(qubits) |->
                        IF qubits[i] >= S.n THEN qubits[i] + S.N - S.n ELSE qubits[i]]
                   blk_row == block_diagonal_matrix(S.cidx, S.n, qubits_row, diag)
                   qubits_chunk == blk_in.qubits \o Shifted(blk_in.qubits, S.n)
                   d == TensorProduct(Conjugate(blk_row.diag), blk_in.diag)
               IN Call(S, "sv", "apply_diagonal_matrix", qubits_chunk, d,
                       sv_apply_diagonal_matrix(S.buf, qubits_chunk, d))
  ELSE Call(S, "dm", "apply_diagonal_unitary_matrix", qubits, diag,
            dm_apply_diagonal_unitary_matrix(S.buf, S.n, qubits, diag))

\* the phase on the ket bit of the qubit alone
apply_phase_ket(S, qubit, phase) ==
  LET d == [k \in 0..1 |-> IF k = 0 THEN One ELSE phase]
  IN Call(S, "sv", "apply_diagonal_matrix", <<qubit>>, d,
          sv_apply_diagonal_matrix(S.buf, <<qubit>>, d))

\* State::apply_phase(qubit, phase)
apply_phase(S, qubit, phase) ==
  apply_diagonal_unitary_matrix(S, <<qubit>>, [k \in 0..1 |-> IF k = 0 THEN One ELSE phase])

\* State::apply_gate_u3
apply_gate_u3(S, qubit, theta, phi, lambda) ==
  LET m == VMatrix_u3(theta, phi, lambda)
  IN Call(S, "dm", "apply_unitary_matrix", <<qubit>>, m,
          dm_apply_unitary_matrix(S.buf, S.n, <<qubit>>, m))

\* State::apply_matrix(qubits, mat)
apply_matrix(S, qubits, mat) ==
  IF mat.rows = 1
  THEN apply_diagonal_unitary_matrix(S, qubits, mat.data)
  ELSE Call(S, "dm", "apply_unitary_matrix", qubits, mat.data,
            dm_apply_unitary_matrix(S.buf, S.n, qubits, mat.data))

\* the Pauli string on both sides without the sign of the Y letters
apply_pauli_unsigned(S, qubits, pauli) ==
  LET sq == superop_qubits(qubits, S.n)
  IN Call(S, "sv", "apply_pauli", sq, <<pauli \o pauli, One>>,
          sv_apply_pauli(S.buf, sq, pauli \o pauli, One))

\* State::apply_pauli
apply_pauli(S, qubits, pauli) ==
  LET coeff == IF Cardinality({i \in 1..Len(pauli) : pauli[i] = "Y"}) % 2 = 1
               THEN MinusOne ELSE One
      sq == superop_qubits(qubits, S.n)
  IN Call(S, "sv", "apply_pauli", sq, <<pauli \o pauli, coeff>>,
          sv_apply_pauli(S.buf, sq, pauli \o pauli, coeff))

\* a two-sided gate primitive of the buffer on the qubits qs
DmGate(S, fn, qs, newbuf) == Call(S, "dm", fn, qs, <<>>, newbuf)

\* a dense unitary of the catalog
DmUnitary(S, qs, m) ==
  Call(S, "dm", "apply_unitary_matrix", qs, m, dm_apply_unitary_matrix(S.buf, S.n, qs, m))

\* State::apply_gate from the catalog lookup on: the switch over Gates
apply_gate_switch(S, op) ==
  LET g == gateset_(op.name)
      q0 == At(op.qubits, 0)
      q1 == At(op.qubits, 1)
      q2 == At(op.qubits, 2)
      b == S.buf
      n == S.n
  IN CASE g = "" -> Throw(S, "invalid gate instruction", op.name)
       [] g = "u3" -> apply_gate_u3(S, q0, op.params[1], op.params[2], op.params[3])
       [] g = "u2" -> apply_gate_u3(S, q0, 1, op.params[1], op.params[2])
       [] g = "u1" -> apply_phase(S, q0, ExpI(op.params[1]))
       [] g = "cx" -> DmGate(S, "apply_cnot", <<q0, q1>>, dm_apply_cnot(b, n, q0, q1))
       [] g = "cy" -> DmGate(S, "apply_cy", <<q0, q1>>, dm_apply_cy(b, n, q0, q1))
       [] g = "cz" -> Call(S, "dm", "apply_cphase", <<q0, q1>>, MinusOne,
                           dm_apply_cphase(b, n, q0, q1, MinusOne))
       [] g = "cp" -> Call(S, "dm", "apply_cphase", <<q0, q1>>, ExpI(op.params[1]),
                           dm_apply_cphase(b, n, q0, q1, ExpI(op.params[1])))
       [] g = "id" -> S
       [] g = "x" -> DmGate(S, "apply_x", <<q0>>, dm_apply_x(b, n, q0))
       [] g = "y" -> DmGate(S, "apply_y", <<q0>>, dm_apply_y(b, n, q0))
       [] g = "z" -> apply_phase(S, q0, MinusOne)
       [] g = "h" -> apply_gate_u3(S, q0, 1, 0, 4)
       [] g = "s" -> apply_phase(S, q0, ImagUnit)
       [] g = "sdg" -> apply_phase(S, q0, Neg(ImagUnit))
       [] g = "sx" -> DmUnitary(S, op.qubits, VMatrix_SX)
       [] g = "sxdg" -> DmUnitary(S, op.qubits, VMatrix_SXDG)
       [] g = "t" -> apply_phase(S, q0, ExpI(1))
       [] g = "tdg" -> apply_phase(S, q0, ExpI(7))
       [] g = "swap" -> DmGate(S, "apply_swap", <<q0, q1>>, dm_apply_swap(b, n, q0, q1))
       [] g = "ecr" -> DmUnitary(S, op.qubits, VMatrix_ECR)
       [] g = "ccx" -> DmGate(S, "apply_toffoli", <<q0, q1, q2>>,
                              dm_apply_toffoli(b, n, q0, q1, q2))
       [] g = "r" -> DmUnitary(S, op.qubits, VMatrix_r(op.params[1], op.params[2]))
       [] g = "rx" -> DmUnitary(S, op.qubits, VMatrix_rx(op.params[1]))
       [] g = "ry" -> DmUnitary(S, op.qubits, VMatrix_ry(op.params[1]))
       [] g = "rz" -> apply_diagonal_unitary_matrix(S, op.qubits, VMatrix_rz_diag(op.params[1]))
       [] g = "rxx" -> DmUnitary(S, op.qubits, VMatrix_rxx(op.params[1]))
       [] g = "ryy" -> DmUnitary(S, op.qubits, VMatrix_ryy(op.params[1]))
       [] g = "rzz" -> apply_diagonal_unitary_matrix(S, op.qubits, VMatrix_rzz_diag(op.params[1]))
       [] g = "rzx" -> DmUnitary(S, op.qubits, VMatrix_rzx(op.params[1]))
       [] g = "pauli" -> apply_pauli(S, op.qubits, op.string_params[1])
       [] OTHER -> Throw(S, "invalid gate instruction", op.name)

\* a statevector primitive of the buffer on the bits qs
SvGate(S, fn, qs, arg, newbuf) == Call(S, "sv", fn, qs, arg, newbuf)

\* State::apply_gate_statevector
apply_gate_statevector(S, op) ==
  LET g == gateset_(op.name)
  IN CASE g = "" -> Throw(S, "invalid gate instruction", op.name)
       [] g \in {"x", "cx"} ->
            SvGate(S, "apply_mcx", op.qubits, <<>>, sv_apply_mcx(S.buf, op.qubits))
       [] g = "u1" ->
            LET phase == IF At(op.qubits, Len(op.qubits) - 1) < S.n
                         THEN ExpI(op.params[1])
                         ELSE Conj(ExpI(op.params[1]))
            IN SvGate(S, "apply_mcphase", op.qubits, phase,
                      sv_apply_mcphase(S.buf, op.qubits, phase))
       [] g = "y" ->
            SvGate(S, "apply_mcy", op.qubits, <<>>, sv_apply_mcy(S.buf, op.qubits))
       [] g = "z" ->
            SvGate(S, "apply_mcphase", op.qubits, MinusOne,
                   sv_apply_mcphase(S.buf, op.qubits, MinusOne))
       [] OTHER -> Throw(S, "invalid gate instruction", op.name)

\* uint_t mask: bit q - num_qubits for every operand q outside the chunk
RECURSIVE ctrl_mask(_, _)
ctrl_mask(qubits_out, num_qubits) ==
  IF Len(qubits_out) = 0 THEN 0
  ELSE BitOr(Pow2(qubits_out[1] - num_qubits), ctrl_mask(Tail(qubits_out), num_qubits))

\* ctrl_chunk: the chunk is one the gate acts on, by its row (ket) bits
ctrl_chunk(cidx, mask) == BitAnd(cidx, mask) = mask

\* the column test with the chunk index shifted by the local qubit count
ctrl_chunk_sp_by_local(cidx, mask, num_global_qubits, num_qubits) ==
  BitAnd(Shr(cidx, num_qubits), mask) = mask

\* ctrl_chunk_sp: the same by its column (bra) bits
ctrl_chunk_sp(cidx, mask, num_global_qubits, num_qubits) ==
  BitAnd(Shr(cidx, num_global_qubits - num_qubits), mask) = mask

\* State::apply_gate
RECURSIVE apply_gate(_, _)
apply_gate(S, op) ==
  LET io == IF IsControlledName(op.name)
            THEN get_inout_ctrl_qubits(op, S.n)
            ELSE [qubits_in |-> <<>>, qubits_out |-> <<>>]
      mask == ctrl_mask(io.qubits_out, S.n)
      row == ctrl_chunk(S.cidx, mask)
      col == ctrl_chunk_sp(S.cidx, mask, S.N, S.n)
      new_op == correct_gate_op_in_chunk(op, io.qubits_in)
  IN IF S.N > S.n /\ ~support_global_indexing /\ Len(io.qubits_out) > 0
     THEN IF ~row /\ ~col THEN S
          ELSE IF row /\ col THEN apply_gate(S, new_op)
          ELSE IF row THEN apply_gate_statevector(S, new_op)
          ELSE apply_gate_statevector(
                 S, [new_op EXCEPT !.qubits = Shifted(new_op.qubits, S.n)])
     ELSE apply_gate_switch(S, op)

(***************************************************************************)
(* The register split into chunks.  Chunk c of a register of N qubits with *)
(* n local qubits holds the entries whose global ket bits are the low      *)
(* N - n bits of c and whose global bra bits are its high N - n bits.      *)
(***************************************************************************)
\* the index in the full vector of entry l of chunk c
GlobalIndex(c, l, N, n) ==
  LET row == (l % Pow2(n)) + Pow2(n) * (c % Pow2(N - n))
      col == (l \div Pow2(n)) + Pow2(n) * (c \div Pow2(N - n))
  IN row + Pow2(N) * col

SplitChunks(rho, N, n) ==
  [c \in 0..(Pow2(2 * (N - n)) - 1) |->
     [l \in 0..(Pow2(2 * n) - 1) |-> rho[GlobalIndex(c, l, N, n)]]]

Assemble(cs, N, n) ==
  [g \in 0..(Pow2(2 * N) - 1) |->
     LET row == g % Pow2(N)
         col == g \div Pow2(N)
         c == (row \div Pow2(n)) + Pow2(N - n) * (col \div Pow2(n))
         l == (row % Pow2(n)) + Pow2(n) * (col % Pow2(n))
     IN cs[c][l]]

\* the state object of a chunk, and of a register held in one chunk
StateOf(buf, n, N, cidx) ==
  [buf |-> buf, n |-> n, N |-> N, cidx |-> cidx, err |-> NoError,
   calls |-> <<>>, ub |-> FALSE,
   creg |-> [memory |-> <<>>, register |-> <<>>], result |-> <<>>, rng |-> <<>>]

SingleChunk(buf, N) == StateOf(buf, N, N, 0)

(***************************************************************************)
(* Initial density matrices.                                               *)
(***************************************************************************)
\* |psi><psi| / <psi|psi> for integer amplitudes psi[k] = <<re, im>>
PureState(psi, N) ==
  LET amp(k) == Cplx(psi[k + 1][1], psi[k + 1][2])
      norm == SumNat([k \in 1..Len(psi) |-> psi[k][1] * psi[k][1] + psi[k][2] * psi[k][2]])
  IN [g \in 0..(Pow2(2 * N) - 1) |->
        Mul(Rat(1, norm), Mul(amp(g % Pow2(N)), Conj(amp(g \div Pow2(N)))))]

\* |0..0><0..0|: DensityMatrix::initialize
ZeroState(N) == [g \in 0..(Pow2(2 * N) - 1) |-> IF g = 0 THEN One ELSE Zero]

\* a pure state all of whose amplitudes differ: psi[k] = 1 + i*k
RampState(N) == PureState([k \in 1..Pow2(N) |-> <<1, k - 1>>], N)

\* (|0..0> + |1..1>) / sqrt(2)
GHZState(N) ==
  PureState([k \in 1..Pow2(N) |-> IF k \in {1, Pow2(N)} THEN <<1, 0>> ELSE <<0, 0>>], N)

(***************************************************************************)
(* The classical register (framework/creg.hpp) and the result sink.        *)
(* memory and register are sequences of bits; bit i of the code is entry   *)
(* i + 1.                                                                  *)
(***************************************************************************)
\* ClassicalRegister::check_conditional
check_conditional(creg, op) ==
  IF op.conditional THEN creg.register[op.conditional_reg + 1] = 1 ELSE TRUE

\* the bits with bit where[j] set to outcome[j]
RECURSIVE StoreBits(_, _, _)
StoreBits(bits, outcome, where) ==
  IF Len(where) = 0 THEN bits
  ELSE StoreBits([bits EXCEPT ![where[1] + 1] = outcome[1]], Tail(outcome), Tail(where))

\* ClassicalRegister::store_measure
store_measure(creg, outcome, memory, registers) ==
  [memory |-> StoreBits(creg.memory, outcome, memory),
   register |-> StoreBits(creg.register, outcome, registers)]

\* ClassicalRegister::apply_bfunc: register bit registers[0] (and memory bit
\* memory[0], when given) becomes whether the register bits int_params[0]
\* are all 1
apply_bfunc(creg, op) ==
  LET outcome == IF \A i \in 1..Len(creg.register) :
                      Bit(op.int_params[1], i - 1) = 1 => creg.register[i] = 1
                 THEN 1 ELSE 0
  IN store_measure(creg, [i \in 1..Len(op.registers) |-> outcome], op.memory, op.registers)

\* ClassicalRegister::apply_roerror with the noise pattern drawn: the memory
\* and register bits of the op are flipped where the pattern has a 1
apply_roerror(creg, op, noise) ==
  [memory |-> StoreBits(creg.memory,
                        [j \in 1..Len(op.memory) |->
                           (creg.memory[op.memory[j] + 1] + Bit(noise, j - 1)) % 2],
                        op.memory),
   register |-> StoreBits(creg.register,
                          [j \in 1..Len(op.registers) |->
                             (creg.register[op.registers[j] + 1] + Bit(noise, j - 1)) % 2],
                          op.registers)]

\* ExperimentResult::save_data_average
save_data_average(result, key, data, type, save_type) ==
  Append(result, [key |-> key, data |-> data, type |-> type, save_type |-> save_type])

(***************************************************************************)
(* State<densmat_t>: reset and measurement.                                *)
(***************************************************************************)
\* DensityMatrix::apply_reset: the qubits are traced out and put in |0>
dm_apply_reset(buf, n, qs) ==
  LET sq == superop_qubits(qs, n)
      dim == Pow2(Len(qs))
  IN [i \in DOMAIN buf |->
        IF SubIndex(i, sq) # 0 THEN Zero
        ELSE LET term(m) == buf[WithBits(i, sq, m + dim * m)]
             IN SumOver(term, 0, dim - 1)]

\* State::apply_reset
apply_reset(S, qubits) ==
  Call(S, "dm", "apply_reset", qubits, <<>>, dm_apply_reset(S.buf, S.n, qubits))

\* State::measure_probs
measure_probs(S, qubits) == dm_probabilities(S.buf, S.n, qubits)

\* RngEngine::rand_int(probs): the outcomes std::discrete_distribution can
\* give: those of positive weight, and any when no weight is positive (the
\* distribution's precondition is broken) or one is not a number
rand_int(probs) ==
  LET positive == {m \in DOMAIN probs : IsFinite(probs[m]) /\ Sign(probs[m]) > 0}
  IN IF positive = {} \/ \E m \in DOMAIN probs : ~IsFinite(probs[m])
     THEN DOMAIN probs ELSE positive

\* State::sample_measure_with_prob, the RNG giving outcome
sample_measure_with_prob(S, qubits, outcome) ==
  LET probs == measure_probs(S, qubits)
  IN [first |-> outcome, second |-> probs[outcome]]

\* a projector that does not renormalize
projector_unnormalized(dim, meas_state, meas_prob) ==
  [j \in 0..(dim - 1) |-> IF j = meas_state THEN One ELSE Zero]

\* cvector_t mdiag(dim, 0.); mdiag[meas_state] = 1. / std::sqrt(meas_prob)
projector(dim, meas_state, meas_prob) ==
  [j \in 0..(dim - 1) |-> IF j = meas_state THEN InvSqrt(meas_prob) ELSE Zero]

\* a matrix that takes meas_state to final_state and not back
permutation_one_way(dim, final_state, meas_state) ==
  [k \in 0..(dim * dim - 1) |->
     LET r == k % dim
         c == k \div dim
     IN IF \/ (c = meas_state /\ r = final_state)
           \/ (r = c /\ r # final_state /\ r # meas_state)
        THEN One ELSE Zero]

\* cvector_t perm(dim * dim, 0.) with its entries set to 1.
permutation(dim, final_state, meas_state) ==
  [k \in 0..(dim * dim - 1) |->
     LET r == k % dim
         c == k \div dim
     IN IF \/ (c = final_state /\ r = meas_state)
           \/ (c = meas_state /\ r = final_state)
           \/ (r = c /\ r # final_state /\ r # meas_state)
        THEN One ELSE Zero]

\* State::measure_reset_update
measure_reset_update(S, qubits, final_state, meas_state, meas_prob) ==
  LET dim == Pow2(Len(qubits))
      mdiag == projector(dim, meas_state, meas_prob)
      S1 == apply_diagonal_unitary_matrix(S, qubits, mdiag)
      perm == permutation(dim, final_state, meas_state)
  IN IF final_state = meas_state THEN S1
     ELSE IF Len(qubits) = 1
     THEN Call(S1, "dm", "apply_x", <<At(qubits, 0)>>, <<>>,
               dm_apply_x(S1.buf, S1.n, At(qubits, 0)))
     ELSE Call(S1, "dm", "apply_unitary_matrix", qubits, perm,
               dm_apply_unitary_matrix(S1.buf, S1.n, qubits, perm))

\* State::apply_measure, the RNG giving outcome
apply_measure(S, qubits, cmemory, cregister, outcome) ==
  LET meas == sample_measure_with_prob(S, qubits, outcome)
      S1 == measure_reset_update([S EXCEPT !.rng = Append(@, outcome)],
                                 qubits, meas.first, meas.first, meas.second)
  IN [S1 EXCEPT !.creg = store_measure(@, Int2Reg(meas.first, Len(qubits)),
                                       cmemory, cregister)]

\* a loop that draws once more than shots
draw_one_more(stream, shots) == [i \in 1..(shots + 1) |-> stream[i]]

\* for (i = 0; i < shots; ++i) rnds.push_back(rng.rand(0, 1))
draw(stream, shots) == [i \in 1..shots |-> stream[i]]

\* State::sample_measure, stream being the numbers rng.rand(0, 1) gives, in
\* order
sample_measure(S, qubits, shots, stream) ==
  LET rnds == draw(stream, shots)
      allbit_samples == dm_sample_measure(S.buf, S.n, rnds)
      S1 == [S EXCEPT !.rng = @ \o rnds,
                      !.calls = Append(@, [side |-> "dm", fn |-> "sample_measure",
                                           qubits |-> <<>>, arg |-> rnds]),
                      !.ub = @ \/ (shots > 0 /\ \E j \in 1..Len(qubits) : qubits[j] >= S.n)]
  IN [S |-> S1,
      ret |-> [i \in 1..Len(allbit_samples) |->
                 LET allbit_sample == Int2Reg(allbit_samples[i], S.n)
                 IN [j \in 1..Len(qubits) |-> At(allbit_sample, qubits[j])]]]

(***************************************************************************)
(* State<densmat_t>: saving data, the reduced density matrix, noise and    *)
(* initialization.                                                         *)
(***************************************************************************)
\* the square matrix (cmatrix_t) with the entries m[r + 1][c + 1]
Matrix(m) == [rows |-> Len(m), cols |-> Len(m), data |-> VMat(m)]

\* QV::index0(qubits_sorted, k): k with a zero bit put in at each position of
\* qubits_sorted, lowest first
RECURSIVE index0(_, _)
index0(qubits_sorted, k) ==
  IF Len(qubits_sorted) = 0 THEN k
  ELSE LET q == qubits_sorted[1]
           lowbits == k % Pow2(q)
       IN index0(Tail(qubits_sorted), Shr(k, q) * Pow2(q + 1) + lowbits)

\* entry m of QV::indexes(qubits, qubits_sorted, k): index0 with bit
\* qubits[i] set where bit i of m is (i from 0)
RECURSIVE index_bits(_, _, _)
index_bits(base, qubits, m) ==
  IF Len(qubits) = 0 THEN base
  ELSE index_bits(IF m % 2 = 1 THEN BitOr(base, Pow2(qubits[1])) ELSE base,
                  Tail(qubits), m \div 2)

indexes(qubits, qubits_sorted, k) ==
  [m \in 0..(Pow2(Len(qubits)) - 1) |-> index_bits(index0(qubits_sorted, k), qubits, m)]

\* the loops of reduced_density_matrix_helper: entry i of the reduced state
\* is vmat[inds[i]] of the block k = 0 plus that of each block k = 1..END-1
accumulate_blocks(vmat, squbits, squbits_sorted, VDIM, END, SHIFT) ==
  [i \in 0..(VDIM - 1) |->
     LET block(k) == vmat[indexes(squbits, squbits_sorted, k * SHIFT)[i]]
     IN SumOver(block, 0, END - 1)]

\* a step from one block to the next that moves the ket bits only
block_shift_ket(END) == END

\* const size_t SHIFT = END + 1: the step from one block to the next, the
\* complement bits of the ket and of the bra index moving together
block_shift(END) == END + 1

\* State::reduced_density_matrix_helper
reduced_density_matrix_helper(S, qubits, qubits_sorted) ==
  LET squbits == superop_qubits(qubits, S.n)
      squbits_sorted == superop_qubits(qubits_sorted, S.n)
      N == Len(qubits)
      DIM == Pow2(N)
      VDIM == Pow2(2 * N)
      END == Pow2(S.n - N)
      SHIFT == block_shift(END)
  IN [rows |-> DIM, cols |-> DIM,
      data |-> accumulate_blocks(S.buf, squbits, squbits_sorted, VDIM, END, SHIFT)]

\* a copy that hands out the transpose
copy_to_matrix_transposed(S) ==
  [S |-> S,
   ret |-> [rows |-> Pow2(S.n), cols |-> Pow2(S.n),
            data |-> [g \in DOMAIN S.buf |->
                        S.buf[(g \div Pow2(S.n)) + Pow2(S.n) * (g % Pow2(S.n))]]]]

\* State::copy_to_matrix and State::move_to_matrix: the buffer as a matrix;
\* a move leaves the state object without a buffer
copy_to_matrix(S) ==
  [S |-> S, ret |-> [rows |-> Pow2(S.n), cols |-> Pow2(S.n), data |-> S.buf]]

move_to_matrix(S) ==
  [S |-> [S EXCEPT !.buf = <<>>],
   ret |-> [rows |-> Pow2(S.n), cols |-> Pow2(S.n), data |-> S.buf]]

\* a reduction that takes every list of all the qubits, in any order, for
\* the full matrix
reduced_density_matrix_any_order(S, qubits, last_op) ==
  IF Len(qubits) = 0
  THEN [S |-> S, ret |-> [rows |-> 1, cols |-> 1,
                          data |-> [i \in 0..0 |-> dm_trace(S.buf, S.n)]]]
  ELSE IF Len(qubits) = S.n
  THEN (IF last_op THEN move_to_matrix(S) ELSE copy_to_matrix(S))
  ELSE [S |-> S, ret |-> reduced_density_matrix_helper(S, qubits, SortQubits(qubits))]

\* State::reduced_density_matrix
reduced_density_matrix(S, qubits, last_op) ==
  LET qubits_sorted == SortQubits(qubits)
  IN IF Len(qubits) = 0
     THEN [S |-> S, ret |-> [rows |-> 1, cols |-> 1,
                             data |-> [i \in 0..0 |-> dm_trace(S.buf, S.n)]]]
     ELSE IF Len(qubits) = S.n /\ qubits = qubits_sorted
     THEN (IF last_op THEN move_to_matrix(S) ELSE copy_to_matrix(S))
     ELSE [S |-> S, ret |-> reduced_density_matrix_helper(S, qubits, qubits_sorted)]

\* State::apply_save_density_matrix
apply_save_density_matrix(S, op, last_op) ==
  LET r == reduced_density_matrix(S, op.qubits, last_op)
  IN [r.S EXCEPT !.result = save_data_average(@, op.string_params[1], r.ret,
                                              op.type, op.save_type)]

\* State::apply_save_state
apply_save_state(S, op, last_op) ==
  LET save_type == CASE op.save_type = "single" -> "average"
                     [] op.save_type = "c_single" -> "c_average"
                     [] OTHER -> op.save_type
      key == IF op.string_params[1] = "_method_" THEN "density_matrix"
             ELSE op.string_params[1]
      r == IF last_op THEN move_to_matrix(S) ELSE copy_to_matrix(S)
  IN IF Len(op.qubits) # S.n
     THEN Throw(S, "was not applied to all qubits", op.name)
     ELSE [r.S EXCEPT !.result = save_data_average(@, key, r.ret, "save_densmat",
                                                   save_type)]

\* Utils::vec2ket: the entries that are not chopped, by index
vec2ket(probs) == {<<m, probs[m]>> : m \in {k \in DOMAIN probs : probs[k] # Zero}}

\* State::apply_save_probs
apply_save_probs(S, op) ==
  LET probs == measure_probs(S, op.qubits)
  IN [S EXCEPT !.result =
        save_data_average(@, op.string_params[1],
                          IF op.type = "save_probs_ket" THEN vec2ket(probs) ELSE probs,
                          op.type, op.save_type)]

\* State::apply_save_amplitudes_sq
apply_save_amplitudes_sq(S, op) ==
  IF Len(op.int_params) = 0
  THEN Throw(S, "Invalid save_amplitudes_sq instructions (empty params)", op.name)
  ELSE LET amps_sq == [i \in 0..(Len(op.int_params) - 1) |->
                         dm_probability(S.buf, S.n, op.int_params[i + 1])]
       IN [S EXCEPT !.result = save_data_average(@, op.string_params[1], amps_sq,
                                                 op.type, op.save_type)]

\* State::expval_pauli: the real part of tr(P rho)
expval_pauli(S, qubits, pauli) ==
  RealPart(dm_trace(sv_apply_pauli(S.buf, qubits, pauli, One), S.n))

\* Base::apply_save_expval for one Pauli term of coefficient 1,
\* string_params = <<key, pauli>>
apply_save_expval(S, op) ==
  LET expval == expval_pauli(S, op.qubits, op.string_params[2])
      sq_expval == RealPart(dm_trace(S.buf, S.n))
      data == IF op.type = "save_expval_var"
              THEN <<expval, Add(sq_expval, Neg(Mul(expval, expval)))>>
              ELSE <<expval>>
  IN [S EXCEPT !.result = save_data_average(@, op.string_params[1], data,
                                            op.type, op.save_type)]

\* Utils::tensor_product of two matrices (the Kronecker product)
MatrixTensorProduct(A, B) ==
  LET rows == A.rows * B.rows
      cols == A.cols * B.cols
  IN [rows |-> rows, cols |-> cols,
      data |-> [k \in 0..(rows * cols - 1) |->
                  LET r == k % rows
                      c == k \div rows
                  IN Mul(A.data[(r \div B.rows) + A.rows * (c \div B.cols)],
                         B.data[(r % B.rows) + B.rows * (c % B.cols)])]]

\* Utils::kraus_superop: the sum of conj(K) (x) K over the Kraus matrices
RECURSIVE kraus_superop(_)
kraus_superop(kmats) ==
  LET K == kmats[1]
      term == MatrixTensorProduct([K EXCEPT !.data = Conjugate(K.data)], K)
  IN IF Len(kmats) = 1 THEN term
     ELSE LET rest == kraus_superop(Tail(kmats))
          IN [term EXCEPT !.data = [k \in DOMAIN term.data |->
                                      Add(term.data[k], rest.data[k])]]

\* Utils::vectorize_matrix: the columns of the matrix, one after the other
vectorize_matrix(mat) == mat.data

\* State::apply_kraus
apply_kraus(S, qubits, kmats) ==
  LET vmat == vectorize_matrix(kraus_superop(kmats))
  IN Call(S, "dm", "apply_superop_matrix", qubits, vmat,
          dm_apply_superop_matrix(S.buf, S.n, qubits, vmat))

\* DensityMatrix::initialize_from_vector of a vector of the buffer's size
dm_initialize_from_vector(S, vec) ==
  IF Size(vec) = Size(S.buf)
  THEN [S EXCEPT !.buf = vec,
                 !.calls = Append(@, [side |-> "dm", fn |-> "initialize_from_vector",
                                      qubits |-> <<>>, arg |-> vec])]
  ELSE Throw(S, "initial state does not match qubit number", <<>>)

\* State::initialize_from_vector
initialize_from_vector(S, vec) ==
  dm_initialize_from_vector(S, TensorProduct(Conjugate(vec), vec))

\* DensityMatrix::initialize_from_matrix
dm_initialize_from_matrix(S, mat) ==
  IF mat.rows * mat.cols = Size(S.buf)
  THEN [S EXCEPT !.buf = mat.data,
                 !.calls = Append(@, [side |-> "dm", fn |-> "initialize_from_matrix",
                                      qubits |-> <<>>, arg |-> mat])]
  ELSE Throw(S, "initial state does not match qubit number", <<>>)

(***************************************************************************)
(* State<densmat_t>::apply_op.  rnd is what the RNG gives the call:        *)
(* rnd.outcome for rand_int of a measurement, rnd.noise for a readout      *)
(* error.                                                                  *)
(***************************************************************************)
\* the operation is ignored: nothing is done and nothing is thrown
ignore_instruction(S, op) == S

\* the default of the switch: std::invalid_argument naming the operation
invalid_instruction(S, op) == Throw(S, "invalid instruction", op.name)

\* the switch of apply_op on op.type
apply_op_switch(S, op, final_ops, rnd) ==
  CASE op.type \in {"barrier", "qerror_loc"} -> S
    [] op.type = "reset" -> apply_reset(S, op.qubits)
    [] op.type = "measure" ->
         apply_measure(S, op.qubits, op.memory, op.registers, rnd.outcome)
    [] op.type = "bfunc" -> [S EXCEPT !.creg = apply_bfunc(@, op)]
    [] op.type = "roerror" ->
         [S EXCEPT !.creg = apply_roerror(@, op, rnd.noise),
                   !.rng = Append(@, rnd.noise)]
    [] op.type = "gate" -> apply_gate(S, op)
    [] op.type = "matrix" -> apply_matrix(S, op.qubits, op.mats[1])
    [] op.type = "diagonal_matrix" ->
         apply_diagonal_unitary_matrix(S, op.qubits, op.params)
    [] op.type = "superop" ->
         Call(S, "dm", "apply_superop_matrix", op.qubits,
              vectorize_matrix(op.mats[1]),
              dm_apply_superop_matrix(S.buf, S.n, op.qubits,
                                      vectorize_matrix(op.mats[1])))
    [] op.type = "kraus" -> apply_kraus(S, op.qubits, op.mats)
    [] op.type = "set_statevec" -> initialize_from_vector(S, op.params)
    [] op.type = "set_densmat" -> dm_initialize_from_matrix(S, op.mats[1])
    [] op.type \in {"save_expval", "save_expval_var"} -> apply_save_expval(S, op)
    [] op.type = "save_state" -> apply_save_state(S, op, final_ops)
    [] op.type = "save_densmat" -> apply_save_density_matrix(S, op, final_ops)
    [] op.type \in {"save_probs", "save_probs_ket"} -> apply_save_probs(S, op)
    [] op.type = "save_amps_sq" -> apply_save_amplitudes_sq(S, op)
    [] OTHER -> invalid_instruction(S, op)

\* apply_op without the test of the conditional
apply_op_unconditional(S, op, final_ops, rnd) == apply_op_switch(S, op, final_ops, rnd)

apply_op(S, op, final_ops, rnd) ==
  IF check_conditional(S.creg, op) THEN apply_op_switch(S, op, final_ops, rnd) ELSE S

(***************************************************************************)
(* The state of the model.                                                 *)
(***************************************************************************)
VARIABLES
  qreg,    \* the buffer of the register held in one chunk
  chunks,  \* the buffers of the register held in chunks, by chunk index
  nloc,    \* the local qubits of each chunk of chunks
  creg,    \* the classical memory and register
  result,  \* the result sink: what was saved, in order
  rng,     \* the random numbers drawn so far
  call,    \* the last call: [fn, ...], its arguments
  ret,     \* what the last call returned
  err,     \* the exception the last call threw, NoError when none
  log,     \* the buffer primitives the last call called
  pre,     \* qreg, chunks, creg, result and rng before the last call
  ub,      \* a call has run into undefined behaviour
  step,    \* the calls made
  omp      \* the parallel loop of the call under way, NoRegion when none

vars ==
  <<qreg, chunks, nloc, creg, result, rng, call, ret, err, log, pre, ub, step, omp>>

NoRegion == <<>>

NoCall == [fn |-> "none"]
Snapshot == [qreg |-> qreg, chunks |-> chunks, creg |-> creg, result |-> result,
             rng |-> rng]

\* the buffer after a call that ran into undefined behaviour: as the call
\* left it, or anything (the non-finite value stands for the rest)
Garbage(buf) == [i \in DOMAIN buf |-> NonFinite]
Outcome(S, garbage) == IF S.ub /\ garbage THEN Garbage(S.buf) ELSE S.buf

\* the ordered k-tuples of distinct qubits of a register of N qubits
QubitTuples(k, N) ==
  {qs \in [1..k -> 0..(N - 1)] : \A i, j \in 1..k : i # j => qs[i] # qs[j]}

Op(type, name, qubits, params) ==
  [type |-> type, name |-> name, qubits |-> qubits, params |-> params,
   string_params |-> <<>>, int_params |-> <<>>, mats |-> <<>>,
   memory |-> <<>>, registers |-> <<>>,
   conditional |-> FALSE, conditional_reg |-> 0, save_type |-> "average"]

GateOp(name, qubits, params) == Op("gate", name, qubits, params)

(***************************************************************************)
(* SpecChunk: a register of NQC qubits held in chunks of nloc qubits, each *)
(* chunk updated on its own by apply_gate and                              *)
(* apply_diagonal_unitary_matrix, beside the same register held in one     *)
(* chunk.                                                                  *)
(***************************************************************************)
ChunkGateOps ==
  {GateOp(nm, qs, <<>>) :
     nm \in {<<"x">>, <<"y">>, <<"z">>, <<"s">>, <<"t">>, <<"h">>},
     qs \in QubitTuples(1, NQC)}
  \cup {GateOp(nm, qs, <<1>>) :
          nm \in {<<"u", "1">>, <<"r", "z">>}, qs \in QubitTuples(1, NQC)}
  \cup {GateOp(nm, qs, <<>>) :
          nm \in {<<"c", "x">>, <<"c", "y">>, <<"c", "z">>, <<"C", "X">>,
                  <<"s", "w", "a", "p">>, <<"m", "c", "x">>, <<"c", "h">>},
          qs \in QubitTuples(2, NQC)}
  \cup {GateOp(nm, qs, <<1>>) :
          nm \in {<<"c", "p">>, <<"c", "u", "1">>, <<"r", "z", "z">>},
          qs \in QubitTuples(2, NQC)}
  \cup {GateOp(<<"c", "c", "x">>, qs, <<>>) : qs \in QubitTuples(3, NQC)}

ChunkDiagOps ==
  {Op("diagonal_matrix", <<"d", "i", "a", "g", "o", "n", "a", "l">>, qs,
      [k \in 0..(Pow2(Len(qs)) - 1) |-> ExpI(k + 1)]) :
     qs \in QubitTuples(1, NQC) \cup QubitTuples(2, NQC)}

ChunkInitStates == {RampState(NQC), GHZState(NQC)}

InitChunk ==
  /\ nloc \in 1..(NQC - 1)
  /\ qreg \in ChunkInitStates
  /\ chunks = SplitChunks(qreg, NQC, nloc)
  /\ creg = [memory |-> <<>>, register |-> <<>>]
  /\ result = <<>>
  /\ rng = <<>>
  /\ call = NoCall
  /\ ret = <<>>
  /\ err = NoError
  /\ log = <<>>
  /\ pre = <<>>
  /\ ub = FALSE
  /\ step = 0
  /\ omp = NoRegion

\* every chunk and the one-chunk register make the call f(S)
ChunkStep(f(_), c) ==
  LET res == [k \in DOMAIN chunks |-> f(StateOf(chunks[k], nloc, NQC, k))]
      one == f(SingleChunk(qreg, NQC))
      info(S) == [err |-> S.err, calls |-> S.calls, ub |-> S.ub]
  IN /\ step < MaxChunkOps
     /\ ~ub
     /\ \E garbage \in BOOLEAN :
          /\ garbage => (one.ub \/ \E k \in DOMAIN chunks : res[k].ub)
          /\ chunks' = [k \in DOMAIN chunks |-> Outcome(res[k], garbage)]
          /\ qreg' = Outcome(one, garbage)
     /\ log' = [chunk |-> [k \in DOMAIN chunks |-> info(res[k])], one |-> info(one)]
     /\ err' = one.err
     /\ ub' = (one.ub \/ \E k \in DOMAIN chunks : res[k].ub)
     /\ call' = c
     /\ pre' = Snapshot
     /\ step' = step + 1
     /\ UNCHANGED <<nloc, creg, result, rng, ret, omp>>

ChunkApplyGate ==
  \E op \in ChunkGateOps :
    LET f(S) == apply_gate(S, op)
    IN ChunkStep(f, [fn |-> "apply_gate", op |-> op])

ChunkApplyDiagonal ==
  \E op \in ChunkDiagOps :
    LET f(S) == apply_diagonal_unitary_matrix(S, op.qubits, op.params)
    IN ChunkStep(f, [fn |-> "apply_diagonal_unitary_matrix", op |-> op])

NextChunk == ChunkApplyGate \/ ChunkApplyDiagonal

SpecChunk == InitChunk /\ [][NextChunk]_vars

(***************************************************************************)
(* What the last call was, read off call, not off the code's own tests.    *)
(***************************************************************************)
\* the operands of the last call that are inside a chunk, in order
LocalOperands ==
  LET inside(q) == q < nloc IN SelectSeq(call.op.qubits, inside)

\* the last call is apply_gate of a gate named c... or mc... with an operand
\* outside the chunk
RoutedCall ==
  /\ call.fn = "apply_gate"
  /\ \/ call.op.name[1] = "c"
     \/ Len(call.op.name) >= 2 /\ call.op.name[1] = "m" /\ call.op.name[2] = "c"
  /\ \E i \in 1..Len(call.op.qubits) : call.op.qubits[i] >= nloc

\* every bit q - local of the chunk index k is set, q an operand outside
rowActive(k) ==
  \A i \in 1..Len(call.op.qubits) :
    LET q == call.op.qubits[i]
    IN q >= nloc => (k \div (2 ^ (q - nloc))) % 2 = 1

\* the same bits of k >> (total - local)
colActive(k) ==
  \A i \in 1..Len(call.op.qubits) :
    LET q == call.op.qubits[i]
    IN q >= nloc => ((k \div (2 ^ (NQC - nloc))) \div (2 ^ (q - nloc))) % 2 = 1

\* C1: a gate named c... or mc... with an operand outside the chunk leaves a
\* chunk that is neither row- nor column-active untouched, calls only
\* two-sided primitives on the in-chunk operands in a chunk that is both, and
\* calls only statevector primitives in a chunk that is exactly one of them,
\* on the in-chunk operands (row) or on each of them plus the local qubit
\* count (column).
C1_Routing ==
  RoutedCall =>
    \A k \in DOMAIN chunks :
      LET L == log.chunk[k]
          row == rowActive(k)
          col == colActive(k)
          acted == L.calls # <<>> \/ L.err # NoError
      IN /\ (~row /\ ~col) =>
              chunks[k] = pre.chunks[k] /\ L.calls = <<>> /\ L.err = NoError
         /\ (row /\ col) =>
              /\ acted
              /\ \A c \in 1..Len(L.calls) :
                   /\ L.calls[c].side = "dm"
                   /\ Len(LocalOperands) > 0 => L.calls[c].qubits = LocalOperands
         /\ (row # col) =>
              /\ acted
              /\ \A c \in 1..Len(L.calls) :
                   /\ L.calls[c].side = "sv"
                   /\ L.calls[c].qubits =
                        IF row THEN LocalOperands
                        ELSE [i \in 1..Len(LocalOperands) |-> LocalOperands[i] + nloc]

\* a routed gate whose target is in the chunk has met chunks of all four
\* kinds, and every chunk that acted called a primitive with defined behaviour
C1_Witness ==
  /\ RoutedCall
  /\ ~ub
  /\ call.op.qubits[Len(call.op.qubits)] < nloc
  /\ \E k \in DOMAIN chunks : ~rowActive(k) /\ ~colActive(k)
  /\ \E k \in DOMAIN chunks : rowActive(k) /\ colActive(k) /\ log.chunk[k].calls # <<>>
  /\ \E k \in DOMAIN chunks : rowActive(k) /\ ~colActive(k) /\ log.chunk[k].calls # <<>>
  /\ \E k \in DOMAIN chunks : ~rowActive(k) /\ colActive(k) /\ log.chunk[k].calls # <<>>

\* the operation needs no data of another chunk: it is diagonal, or every
\* operand outside the chunk is a control of a controlled gate
DiagonalNames ==
  {<<"z">>, <<"s">>, <<"t">>, <<"u", "1">>, <<"r", "z">>, <<"r", "z", "z">>,
   <<"c", "z">>, <<"c", "p">>, <<"c", "u", "1">>}

NeedsNoExchange ==
  \/ call.op.type = "diagonal_matrix"
  \/ call.op.name \in DiagonalNames
  \/ \A i \in 1..Len(call.op.qubits) :
       call.op.qubits[i] >= nloc => (call.op.name[1] = "c" /\ i < Len(call.op.qubits))

\* C2: after a catalog gate or a diagonal matrix that every chunk applied
\* with defined behaviour and without an error, the density matrix assembled
\* from the chunks is the one the register held in one chunk has.
C2_ChunkEquivalence ==
  (/\ step > 0
   /\ ~ub
   /\ log.one.err = NoError
   /\ \A k \in DOMAIN chunks : log.chunk[k].err = NoError
   /\ NeedsNoExchange)
  => Assemble(chunks, NQC, nloc) = qreg

\* C5: apply_gate of a name that gateset_ does not hold throws the invalid
\* gate error with that name in every chunk and in the one-chunk register,
\* and leaves the buffer as it was.
C5_UnknownGate ==
  (call.fn = "apply_gate" /\ gateset_(call.op.name) = "")
  => /\ log.one.err = <<"invalid gate instruction", call.op.name>>
     /\ qreg = pre.qreg
     /\ \A k \in DOMAIN chunks :
          /\ log.chunk[k].err = <<"invalid gate instruction", call.op.name>>
          /\ chunks[k] = pre.chunks[k]

\* the row (low) and the column (high) global bits of the chunk index k
RowBits(k) == k % Pow2(NQC - nloc)
ColBits(k) == k \div Pow2(NQC - nloc)

\* the entry of the last call's diagonal for the index of NQC bits whose
\* in-chunk operand bits are those of a and whose global bits are g
Filtered(g, a) ==
  call.op.params[SubIndex(WithBits(g * Pow2(nloc), LocalOperands, a), call.op.qubits)]

\* D rho D-dagger for the diagonal D of the last call on its qubits
Conjugated(rho) ==
  [x \in DOMAIN rho |->
     Mul(Mul(call.op.params[SubIndex(x % Pow2(NQC), call.op.qubits)],
             Conj(call.op.params[SubIndex(x \div Pow2(NQC), call.op.qubits)])),
         rho[x])]

\* C17: apply_diagonal_unitary_matrix with a qubit outside the chunk calls
\* the buffer once, apply_diagonal_matrix on the in-chunk qubits followed by
\* the same plus the local qubit count, with the diagonal of 4^m entries
\* conj(D_col) (x) D_row, D_row the diagonal at the chunk's row bits and D_col
\* at its column bits, and leaves in the chunk its block of D rho D-dagger;
\* with every qubit in the chunk it applies diag as given on the qubits as
\* given.
C17_DiagonalSplit ==
  call.fn = "apply_diagonal_unitary_matrix" =>
    \A k \in DOMAIN chunks :
      LET m == Len(LocalOperands)
          split == [j \in 0..(Pow2(2 * m) - 1) |->
                      Mul(Conj(Filtered(ColBits(k), j \div Pow2(m))),
                          Filtered(RowBits(k), j % Pow2(m)))]
      IN /\ log.chunk[k].err = NoError
         /\ ~ub
         /\ log.chunk[k].calls =
              IF m < Len(call.op.qubits)
              THEN << [side |-> "sv", fn |-> "apply_diagonal_matrix",
                       qubits |-> LocalOperands \o Shifted(LocalOperands, nloc),
                       arg |-> split] >>
              ELSE << [side |-> "dm", fn |-> "apply_diagonal_unitary_matrix",
                       qubits |-> call.op.qubits, arg |-> call.op.params] >>
         /\ chunks[k] = SplitChunks(Conjugated(Assemble(pre.chunks, NQC, nloc)),
                                    NQC, nloc)[k]

\* a diagonal on a qubit in the chunk and one outside, in chunks of more
\* than one qubit, which changes a chunk whose row and column bits differ
C17_Witness ==
  /\ call.fn = "apply_diagonal_unitary_matrix"
  /\ Len(LocalOperands) = 1
  /\ Len(call.op.qubits) = 2
  /\ nloc > 1
  /\ \E k \in DOMAIN chunks :
       /\ RowBits(k) # ColBits(k)
       /\ chunks[k] # pre.chunks[k]
       /\ Len(log.chunk[k].calls) = 1

\* the buffer of a chunk as the conjugate transpose of its matrix
Mirror(buf) ==
  [l \in DOMAIN buf |-> Conj(buf[(l \div Pow2(nloc)) + Pow2(nloc) * (l % Pow2(nloc))])]

\* the chunk index with the row and the column bits of k exchanged
MirrorChunk(k) == ColBits(k) + Pow2(NQC - nloc) * RowBits(k)

\* C19: in a chunk that is active for the column mask only, apply_gate of a
\* gate the one-sided path accepts applies to the bra bits the complex
\* conjugate of the operator it applies to the ket bits in a chunk active
\* for the row mask only: the chunk is left as the conjugate transpose of
\* what the row-active chunk of the exchanged index makes of its conjugate
\* transpose.
C19_BraSideConjugate ==
  (RoutedCall /\ ~ub) =>
    \A k \in DOMAIN chunks :
      (colActive(k) /\ ~rowActive(k) /\ log.chunk[k].err = NoError) =>
        chunks[k] =
          Mirror(apply_gate(StateOf(Mirror(pre.chunks[k]), nloc, NQC, MirrorChunk(k)),
                            call.op).buf)

\* the last call was apply_gate of a catalog gate with an operand outside
\* the chunk
GlobalOperandCall ==
  /\ call.fn = "apply_gate"
  /\ gateset_(call.op.name) # ""
  /\ \E i \in 1..Len(call.op.qubits) : call.op.qubits[i] >= nloc

\* C16: in a chunk, apply_gate of a gate with an operand outside the chunk
\* calls no two-sided primitive of the buffer on a qubit that is outside
\* the chunk.
C16_GlobalOperandsRouted ==
  GlobalOperandCall =>
    \A k \in DOMAIN chunks :
      \A c \in 1..Len(log.chunk[k].calls) :
        LET e == log.chunk[k].calls[c]
        IN e.side = "dm" => \A t \in 1..Len(e.qubits) : e.qubits[t] < nloc

(***************************************************************************)
(* Spec: a register of NQ qubits held in one chunk, with two memory and    *)
(* two register bits, run through apply_op.                                *)
(***************************************************************************)
PauliX == Matrix(<< <<Zero, One>>, <<One, Zero>> >>)
\* the Kraus matrices |0><0| and |0><1| of a reset
Kraus0 == Matrix(<< <<One, Zero>>, <<Zero, Zero>> >>)
Kraus1 == Matrix(<< <<Zero, One>>, <<Zero, Zero>> >>)
\* the state (|0..0> + i|1..1>) / sqrt(2)
PhasedBell ==
  [k \in 0..(Pow2(NQ) - 1) |->
     IF k = 0 THEN InvSqrt2
     ELSE IF k = Pow2(NQ) - 1 THEN Mul(ImagUnit, InvSqrt2) ELSE Zero]
\* the matrix I / 2^NQ, and the matrix of zeros
MixedMatrix ==
  [rows |-> Pow2(NQ), cols |-> Pow2(NQ),
   data |-> [g \in 0..(Pow2(2 * NQ) - 1) |->
               IF g % Pow2(NQ) = g \div Pow2(NQ) THEN Rat(1, Pow2(NQ)) ELSE Zero]]
ZeroMatrix ==
  [rows |-> Pow2(NQ), cols |-> Pow2(NQ), data |-> ConstVec(Pow2(2 * NQ), Zero)]

AllQubits == [i \in 1..NQ |-> i - 1]
Reversed == [i \in 1..NQ |-> NQ - i]
\* qubit 0 listed NQ times
Repeated == [i \in 1..NQ |-> 0]

QuantumOps ==
  {Op("reset", <<"r", "e", "s", "e", "t">>, qs, <<>>) : qs \in {<<0>>, AllQubits}}
  \cup {GateOp(<<"h">>, <<0>>, <<>>), GateOp(<<"c", "x">>, <<0, 1>>, <<>>),
        GateOp(<<"f", "o", "o">>, <<0>>, <<>>)}
  \cup {[Op("matrix", <<"u", "n", "i", "t", "a", "r", "y">>, <<1>>, <<>>)
           EXCEPT !.mats = <<PauliX>>],
        [Op("matrix", <<"u", "n", "i", "t", "a", "r", "y">>, <<0>>, <<>>)
           EXCEPT !.mats = << [rows |-> 1, cols |-> 2,
                               data |-> [k \in 0..1 |-> ExpI(2 * k)]] >>],
        Op("diagonal_matrix", <<"d", "i", "a", "g", "o", "n", "a", "l">>, <<0>>,
           [k \in 0..1 |-> ExpI(k)]),
        [Op("superop", <<"s", "u", "p", "e", "r", "o", "p">>, <<0>>, <<>>)
           EXCEPT !.mats = <<kraus_superop(<<PauliX>>)>>],
        [Op("kraus", <<"k", "r", "a", "u", "s">>, <<0>>, <<>>)
           EXCEPT !.mats = <<Kraus0, Kraus1>>]}

SetOps ==
  {Op("set_statevec", <<"s", "e", "t", "_", "s", "v">>, AllQubits, PhasedBell),
   [Op("set_densmat", <<"s", "e", "t", "_", "d", "m">>, AllQubits, <<>>)
      EXCEPT !.mats = <<MixedMatrix>>],
   [Op("set_densmat", <<"s", "e", "t", "_", "d", "m">>, AllQubits, <<>>)
      EXCEPT !.mats = <<ZeroMatrix>>]}

MeasureOps ==
  {[Op("measure", <<"m", "e", "a", "s", "u", "r", "e">>, <<0>>, <<>>)
      EXCEPT !.memory = <<0>>, !.registers = <<0>>],
   [Op("measure", <<"m", "e", "a", "s", "u", "r", "e">>, Reversed, <<>>)
      EXCEPT !.memory = AllQubits]}

ClassicalOps ==
  {Op("barrier", <<"b", "a", "r", "r", "i", "e", "r">>, <<0>>, <<>>),
   Op("qerror_loc", <<"q", "e", "r", "r">>, <<0>>, <<>>),
   [Op("bfunc", <<"b", "f", "u", "n", "c">>, <<>>, <<>>)
      EXCEPT !.int_params = <<1>>, !.registers = <<1>>],
   [Op("roerror", <<"r", "o", "e", "r", "r", "o", "r">>, <<>>, <<>>)
      EXCEPT !.memory = <<0>>, !.registers = <<0>>]}

SaveName == <<"s", "a", "v", "e">>

SaveOps ==
  {[Op(t, SaveName, AllQubits, <<>>) EXCEPT !.string_params = <<"k", <<"Z", "Z">>>>] :
     t \in {"save_expval", "save_expval_var"}}
  \cup {[Op("save_state", SaveName, qs, <<>>)
           EXCEPT !.string_params = <<"_method_">>, !.save_type = "single"] :
          qs \in {AllQubits, <<0>>, Repeated}}
  \cup {[Op("save_densmat", SaveName, qs, <<>>) EXCEPT !.string_params = <<"k">>] :
          qs \in {<<>>, <<0>>, AllQubits, Reversed}}
  \cup {[Op(t, SaveName, <<0>>, <<>>) EXCEPT !.string_params = <<"k">>] :
          t \in {"save_probs", "save_probs_ket"}}
  \cup {[Op("save_amps_sq", SaveName, AllQubits, <<>>)
           EXCEPT !.string_params = <<"k">>, !.int_params = ip] :
          ip \in {<<>>, <<0, Pow2(NQ) - 1>>}}

\* kinds of Operations::OpType that the switch of apply_op has no case for
UnhandledOps ==
  {Op("jump", <<"j", "u", "m", "p">>, <<0>>, <<>>),
   Op("mark", <<"m", "a", "r", "k">>, <<0>>, <<>>),
   Op("nop", <<"n", "o", "p">>, <<>>, <<>>),
   Op("initialize", <<"i", "n", "i", "t", "i", "a", "l", "i", "z", "e">>,
      AllQubits, PhasedBell),
   Op("save_statevec", SaveName, AllQubits, <<>>)}

\* an operation with or without a condition on register bit 0
Conditioned(ops) ==
  ops \cup {[op EXCEPT !.conditional = TRUE] : op \in ops}

Init ==
  /\ nloc = NQ
  /\ qreg \in {ZeroState(NQ), RampState(NQ)}
  /\ chunks = <<>>
  /\ creg \in {[memory |-> <<0, 0>>, register |-> r] : r \in {<<0, 0>>, <<1, 0>>}}
  /\ result = <<>>
  /\ rng = <<>>
  /\ call = NoCall
  /\ ret = <<>>
  /\ err = NoError
  /\ log = <<>>
  /\ pre = <<>>
  /\ ub = FALSE
  /\ step = 0
  /\ omp = NoRegion

\* the state object of the model's variables
Current ==
  [SingleChunk(qreg, nloc) EXCEPT !.creg = creg, !.result = result, !.rng = rng]

\* the variables after the call that left the state object S
Becomes(S, c, r) ==
  /\ \E garbage \in BOOLEAN :
       /\ garbage => S.ub
       /\ qreg' = Outcome(S, garbage)
  /\ creg' = S.creg
  /\ result' = S.result
  /\ rng' = S.rng
  /\ call' = c
  /\ ret' = r
  /\ err' = S.err
  /\ log' = S.calls
  /\ pre' = Snapshot
  /\ ub' = S.ub
  /\ step' = step + 1
  /\ UNCHANGED <<chunks, nloc, omp>>

\* a call can be made: the run is not over and the state object has a buffer
CanCall == step < MaxOps /\ ~ub /\ DOMAIN qreg # {}

\* the state object makes the call f(S), which returns nothing
CallStep(method(_), c) == CanCall /\ Becomes(method(Current), c, <<>>)

\* the same, for a call that draws from the rng: the draw is one it can make
SampledCallStep(possible(_), method(_), c) ==
  CanCall /\ possible(Current) /\ Becomes(method(Current), c, <<>>)

ApplyOp(op, final_ops, rnd) ==
  LET applied(S) == apply_op(S, op, final_ops, rnd)
  IN CallStep(applied, [fn |-> "apply_op", op |-> op, final_ops |-> final_ops])

NoRnd == [outcome |-> 0, noise |-> 0]

ApplyQuantum == \E op \in Conditioned(QuantumOps) : ApplyOp(op, FALSE, NoRnd)

ApplySet == \E op \in Conditioned(SetOps) : ApplyOp(op, FALSE, NoRnd)

\* apply_op of a measure or reset: the outcome is one rand_int can return
ApplyMeasure ==
  \E op \in Conditioned(MeasureOps) :
    \E outcome \in 0..(Pow2(Len(op.qubits)) - 1) :
      LET possible(S) == outcome \in rand_int(measure_probs(S, op.qubits))
          applied(S) == apply_op(S, op, FALSE, [outcome |-> outcome, noise |-> 0])
      IN SampledCallStep(possible, applied,
                         [fn |-> "apply_op", op |-> op, final_ops |-> FALSE])

ApplyClassical ==
  \E op \in Conditioned(ClassicalOps) :
    \E noise \in 0..1 : ApplyOp(op, FALSE, [outcome |-> 0, noise |-> noise])

ApplySave ==
  \E op \in Conditioned(SaveOps) : \E final_ops \in BOOLEAN : ApplyOp(op, final_ops, NoRnd)

ApplyUnhandled == \E op \in Conditioned(UnhandledOps) : ApplyOp(op, FALSE, NoRnd)

Next ==
  \/ ApplyQuantum
  \/ ApplySet
  \/ ApplyMeasure
  \/ ApplyClassical
  \/ ApplySave
  \/ ApplyUnhandled

Spec == Init /\ [][Next]_vars

\* the last call is apply_op and the conditional of its operation failed
\* (passed) on the register as it was before the call
ConditionalFailed ==
  /\ call.fn = "apply_op"
  /\ call.op.conditional
  /\ pre.creg.register[call.op.conditional_reg + 1] # 1

ConditionalPassed ==
  /\ call.fn = "apply_op"
  /\ call.op.conditional => pre.creg.register[call.op.conditional_reg + 1] = 1

\* C3: apply_op of an operation whose conditional fails leaves the buffer,
\* the classical registers, the result sink and the RNG as they were and
\* throws nothing, whatever the kind of the operation.
C3_FalseConditionalNoOp ==
  ConditionalFailed =>
    /\ qreg = pre.qreg
    /\ creg = pre.creg
    /\ result = pre.result
    /\ rng = pre.rng
    /\ err = NoError
    /\ log = <<>>

\* an operation of a kind the dispatcher does not handle, its conditional
\* failing, after a call that changed the buffer
C3_Witness ==
  /\ ConditionalFailed
  /\ call.op.type = "jump"
  /\ step = 2
  /\ pre.qreg \notin {ZeroState(NQ), RampState(NQ)}

\* the kinds the switch of apply_op has a case for
HandledKinds ==
  {"barrier", "qerror_loc", "reset", "measure", "bfunc", "roerror", "gate",
   "matrix", "diagonal_matrix", "superop", "kraus", "set_statevec",
   "set_densmat", "save_expval", "save_expval_var", "save_state",
   "save_densmat", "save_probs", "save_probs_ket", "save_amps_sq"}

\* C4: apply_op of an operation of a kind the dispatcher does not handle,
\* its conditional passing, throws the invalid instruction error with the
\* operation's name and leaves the buffer, the classical registers and the
\* result sink as they were.
C4_UnhandledKindError ==
  (ConditionalPassed /\ call.op.type \notin HandledKinds) =>
    /\ err = <<"invalid instruction", call.op.name>>
    /\ qreg = pre.qreg
    /\ creg = pre.creg
    /\ result = pre.result

\* an unhandled kind met after something was saved and the buffer changed
C4_Witness ==
  /\ ConditionalPassed
  /\ call.op.type \notin HandledKinds
  /\ err # NoError
  /\ pre.result # <<>>

\* the last call was apply_op of a save_state or save_densmat operation, its
\* conditional passing
SavedState ==
  /\ ConditionalPassed
  /\ call.op.type \in {"save_state", "save_densmat"}

\* the last save may move the buffer out: the caller's flag is set and, for
\* save_densmat, the list is all the qubits in ascending order
MayMove ==
  /\ call.final_ops
  /\ call.op.type = "save_densmat" => call.op.qubits = AllQubits

\* C11: a save_state or save_densmat operation leaves the buffer as it was
\* unless the caller's final flag is set and, for save_densmat, the qubit
\* list is all the qubits in ascending order.
C11_SaveKeepsBuffer ==
  (SavedState /\ ~MayMove) => qreg = pre.qreg

\* a save_densmat of all the qubits in descending order with the final flag
\* set: the reduced matrix is in the result sink and the buffer is in place
C11_Witness ==
  /\ SavedState
  /\ call.op.type = "save_densmat"
  /\ call.op.qubits = Reversed
  /\ call.final_ops
  /\ Len(result) = Len(pre.result) + 1
  /\ qreg = pre.qreg
  /\ DOMAIN qreg # {}

\* the last call was apply_op of a save_state operation, its conditional
\* passing, whose list leaves out a qubit of the register
SaveStateNotCovering ==
  /\ ConditionalPassed
  /\ call.op.type = "save_state"
  /\ \E q \in 0..(NQ - 1) : \A j \in DOMAIN call.op.qubits : call.op.qubits[j] # q

\* C12: apply_save_state of an operation whose qubit list leaves out a qubit
\* of the register throws, hands nothing to the result sink and leaves the
\* buffer as it was.
C12_SaveStateCoversRegister ==
  SaveStateNotCovering =>
    /\ err # NoError
    /\ result = pre.result
    /\ qreg = pre.qreg

\* the Op types of StateOpSet
StateOpSet ==
  {"gate", "measure", "reset", "barrier", "bfunc", "qerror_loc", "roerror",
   "matrix", "diagonal_matrix", "kraus", "superop", "set_statevec",
   "set_densmat", "save_expval", "save_expval_var", "save_densmat",
   "save_probs", "save_probs_ket", "save_amps_sq", "save_state", "jump", "mark"}

\* C20: apply_op of an operation of a type in StateOpSet, its conditional
\* passing, does not throw the invalid instruction error.
C20_SupportedKindsAccepted ==
  (ConditionalPassed /\ call.op.type \in StateOpSet) =>
    (err = NoError \/ err[1] # "invalid instruction")

(***************************************************************************)
(* SpecMeasure: a register of NQ qubits held in one chunk, sampled,        *)
(* measured and collapsed.                                                 *)
(***************************************************************************)
\* the numbers rng.rand(0, 1) gives
RndValues == {Rat(1, 4), Rat(3, 4)}

\* the qubit lists measured: one qubit or two, in any order
MeasuredQubits == QubitTuples(1, NQ) \cup QubitTuples(2, NQ)

InitMeasure ==
  /\ nloc = NQ
  /\ qreg \in {ZeroState(NQ), RampState(NQ), GHZState(NQ)}
  /\ chunks = <<>>
  /\ creg = [memory |-> [i \in 1..NQ |-> 0], register |-> [i \in 1..NQ |-> 0]]
  /\ result = <<>>
  /\ rng = <<>>
  /\ call = NoCall
  /\ ret = <<>>
  /\ err = NoError
  /\ log = <<>>
  /\ pre = <<>>
  /\ ub = FALSE
  /\ step = 0
  /\ omp = NoRegion

SampleMeasure ==
  /\ CanCall
  /\ \E qubits \in MeasuredQubits \cup {<<>>} :
       \E shots \in 0..MaxShots :
         \E stream \in [1..(MaxShots + 1) -> RndValues] :
           LET r == sample_measure(Current, qubits, shots, stream)
           IN Becomes(r.S, [fn |-> "sample_measure", qubits |-> qubits,
                            shots |-> shots, stream |-> stream], r.ret)

MeasureResetUpdate ==
  /\ CanCall
  /\ \E qubits \in MeasuredQubits :
       \E final_state, meas_state \in 0..(Pow2(Len(qubits)) - 1) :
         LET meas_prob == measure_probs(Current, qubits)[meas_state]
         IN Becomes(measure_reset_update(Current, qubits, final_state, meas_state,
                                         meas_prob),
                    [fn |-> "measure_reset_update", qubits |-> qubits,
                     final_state |-> final_state, meas_state |-> meas_state,
                     meas_prob |-> meas_prob], <<>>)

Measure ==
  /\ CanCall
  /\ \E qubits \in MeasuredQubits :
       \E outcome \in rand_int(measure_probs(Current, qubits)) :
         Becomes(apply_measure(Current, qubits, [i \in 1..Len(qubits) |-> i - 1],
                               <<>>, outcome),
                 [fn |-> "apply_measure", qubits |-> qubits, meas_state |-> outcome,
                  meas_prob |-> measure_probs(Current, qubits)[outcome]], <<>>)

\* the buffer is set to a matrix, as the operation set_densmat does
SetDensityMatrix ==
  /\ CanCall
  /\ \E mat \in {MixedMatrix, ZeroMatrix} :
       Becomes(dm_initialize_from_matrix(Current, mat),
               [fn |-> "initialize_from_matrix", mat |-> mat], <<>>)

NextMeasure == SampleMeasure \/ MeasureResetUpdate \/ Measure \/ SetDensityMatrix

SpecMeasure == InitMeasure /\ [][NextMeasure]_vars

\* the probability, in the buffer before the last call, of the outcomes below k
RECURSIVE CumulativeBefore(_)
CumulativeBefore(k) ==
  IF k = 0 THEN Zero
  ELSE Add(CumulativeBefore(k - 1),
           RealPart(pre.qreg[(k - 1) * (2 ^ nloc + 1)]))

\* idx is the index the number rnd samples from the distribution of the
\* whole register: the first whose cumulative probability exceeds rnd, the
\* last index when none does
SampledIndex(idx, rnd) ==
  /\ \A k \in 0..(idx - 1) : ~Less(rnd, CumulativeBefore(k + 1))
  /\ Less(rnd, CumulativeBefore(idx + 1)) \/ idx = 2 ^ nloc - 1

\* C6: sample_measure(qubits, shots) leaves the buffer and the classical
\* registers as they were, draws exactly shots numbers from the RNG and
\* returns exactly shots samples, each of |qubits| entries, entry j being
\* bit qubits[j] of the index its number samples from the distribution of the
\* whole register.
C6_SampleMeasure ==
  call.fn = "sample_measure" =>
    /\ qreg = pre.qreg
    /\ creg = pre.creg
    /\ Len(rng) = Len(pre.rng) + call.shots
    /\ \A i \in 1..call.shots : rng[Len(pre.rng) + i] = call.stream[i]
    /\ Len(ret) = call.shots
    /\ \A i \in 1..Len(ret) :
         /\ Len(ret[i]) = Len(call.qubits)
         /\ \E idx \in 0..(2 ^ nloc - 1) :
              /\ SampledIndex(idx, call.stream[i])
              /\ \A j \in 1..Len(call.qubits) :
                   ret[i][j] = (idx \div (2 ^ call.qubits[j])) % 2

\* two shots of two qubits, in the order <<1, 0>>, that sampled different
\* indices of a buffer that an earlier call changed
C6_Witness ==
  /\ call.fn = "sample_measure"
  /\ call.shots = 2
  /\ Len(call.qubits) = 2
  /\ call.qubits[1] > call.qubits[2]
  /\ ret[1] # ret[2]
  /\ ret[1][1] # ret[1][2]
  /\ step = 2

\* C7: measure_reset_update, and apply_measure, of an outcome whose
\* probability is zero reports an error and leaves the buffer alone.
C7_ZeroProbabilityReported ==
  (call.fn \in {"measure_reset_update", "apply_measure"} /\ call.meas_prob = Zero)
  => (err # NoError /\ qreg = pre.qreg)

\* the vector that is 1 at index m and 0 elsewhere
Indicator(dim, m) == [j \in 0..(dim - 1) |-> IF j = m THEN One ELSE Zero]

\* the last call is measure_reset_update with final_state = meas_state and
\* meas_prob the probability of meas_state, which is not zero
Collapse ==
  /\ call.fn = "measure_reset_update"
  /\ call.final_state = call.meas_state
  /\ call.meas_prob = dm_probabilities(pre.qreg, nloc, call.qubits)[call.meas_state]
  /\ IsFinite(call.meas_prob)
  /\ call.meas_prob # Zero

\* C8: after measure_reset_update with final_state = meas_state and
\* meas_prob the non-zero probability of meas_state, the probabilities of the
\* outcomes of qubits are 1 for meas_state and 0 for every other, and neither
\* the flip nor the permutation was applied.
C8_CollapseIdempotence ==
  Collapse =>
    /\ dm_probabilities(qreg, nloc, call.qubits)
         = Indicator(2 ^ Len(call.qubits), call.meas_state)
    /\ \A c \in 1..Len(log) : log[c].fn = "apply_diagonal_unitary_matrix"

\* a collapse of two qubits to an outcome whose probability was less than 1
C8_Witness ==
  /\ Collapse
  /\ Len(call.qubits) = 2
  /\ call.meas_prob # One
  /\ call.meas_state > 0

\* the last call was measure_reset_update
ResetUpdate == call.fn = "measure_reset_update"

\* column c of the vectorized dim x dim matrix vmat holds a single 1, in row
\* r, and zeros
SingleOne(vmat, dim, r, c) ==
  \A j \in 0..(dim - 1) : vmat[j + dim * c] = (IF j = r THEN One ELSE Zero)

\* C18: measure_reset_update first applies a diagonal whose only non-zero
\* entry is the one at meas_state; when final_state differs from meas_state
\* it then applies, for one qubit, one X to that qubit and, for more qubits,
\* a matrix with a single 1 in every row and every column that takes
\* meas_state to final_state, final_state to meas_state and every other
\* basis index to itself; it calls nothing else.
C18_ProjectThenPermute ==
  ResetUpdate =>
    LET dim == Pow2(Len(call.qubits))
        swapped(j) == IF j = call.meas_state THEN call.final_state
                      ELSE IF j = call.final_state THEN call.meas_state ELSE j
    IN /\ Len(log) = (IF call.final_state = call.meas_state THEN 1 ELSE 2)
       /\ log[1].fn = "apply_diagonal_unitary_matrix"
       /\ log[1].qubits = call.qubits
       /\ {j \in 0..(dim - 1) : log[1].arg[j] # Zero} = {call.meas_state}
       /\ (call.final_state # call.meas_state /\ Len(call.qubits) = 1) =>
            log[2] = [side |-> "dm", fn |-> "apply_x", qubits |-> call.qubits,
                      arg |-> <<>>]
       /\ (call.final_state # call.meas_state /\ Len(call.qubits) > 1) =>
            /\ log[2].side = "dm"
            /\ log[2].fn = "apply_unitary_matrix"
            /\ log[2].qubits = call.qubits
            /\ DOMAIN log[2].arg = 0..(dim * dim - 1)
            /\ \A c \in 0..(dim - 1) : SingleOne(log[2].arg, dim, swapped(c), c)
            /\ \A r \in 0..(dim - 1) :
                 Cardinality({c \in 0..(dim - 1) : log[2].arg[r + dim * c] # Zero}) = 1

\* two qubits measured in a state other than the one they are reset to,
\* neither being 0, with basis states that stay as they are
C18_Witness ==
  /\ ResetUpdate
  /\ Len(call.qubits) = 2
  /\ call.final_state # call.meas_state
  /\ call.final_state > 0
  /\ call.meas_state > 0
  /\ call.meas_prob \notin {Zero, One}
  /\ Len(log) = 2
  /\ qreg # pre.qreg

(***************************************************************************)
(* SpecReduce: a register of NQC qubits held in one chunk, and its reduced *)
(* density matrices.                                                       *)
(***************************************************************************)
\* the lists of k distinct qubits, in any order
ReducedQubits(kmin) == UNION {QubitTuples(k, NQC) : k \in kmin..NQC}

ReduceGateOps ==
  {GateOp(<<"h">>, <<0>>, <<>>), GateOp(<<"c", "y">>, <<0, 1>>, <<>>),
   GateOp(<<"t">>, <<NQC - 1>>, <<>>)}

InitReduce ==
  /\ nloc = NQC
  /\ qreg \in {ZeroState(NQC), RampState(NQC), GHZState(NQC)}
  /\ chunks = <<>>
  /\ creg = [memory |-> <<>>, register |-> <<>>]
  /\ result = <<>>
  /\ rng = <<>>
  /\ call = NoCall
  /\ ret = <<>>
  /\ err = NoError
  /\ log = <<>>
  /\ pre = <<>>
  /\ ub = FALSE
  /\ step = 0
  /\ omp = NoRegion

ReduceApplyGate ==
  /\ CanCall
  /\ \E op \in ReduceGateOps :
       Becomes(apply_gate(Current, op), [fn |-> "apply_gate", op |-> op], <<>>)

ReducedDensityMatrix ==
  /\ CanCall
  /\ \E qubits \in ReducedQubits(0) :
       \E last_op \in BOOLEAN :
         LET r == reduced_density_matrix(Current, qubits, last_op)
         IN Becomes(r.S, [fn |-> "reduced_density_matrix", qubits |-> qubits,
                          last_op |-> last_op], r.ret)

ReducedDensityMatrixHelper ==
  /\ CanCall
  /\ \E qubits \in ReducedQubits(1) :
       Becomes(Current, [fn |-> "reduced_density_matrix_helper", qubits |-> qubits],
               reduced_density_matrix_helper(Current, qubits, SortQubits(qubits)))

NextReduce == ReduceApplyGate \/ ReducedDensityMatrix \/ ReducedDensityMatrixHelper

SpecReduce == InitReduce /\ [][NextReduce]_vars

\* the qubits of the register that the last call's list leaves out, ascending
Complement ==
  LET out(q) == \A j \in 1..Len(call.qubits) : call.qubits[j] # q
  IN SelectSeq([i \in 1..nloc |-> i - 1], out)

\* the index of the register whose bits at the list's qubits are those of r,
\* in list order, and whose bits at the complement are those of m
FullIndex(r, m) == WithBits(WithBits(0, call.qubits, r), Complement, m)

\* entry (r, c) of the partial trace of the buffer before the last call
PartialTrace(r, c) ==
  LET term(m) == pre.qreg[FullIndex(r, m) + (2 ^ nloc) * FullIndex(c, m)]
  IN SumOver(term, 0, 2 ^ Len(Complement) - 1)

\* C9: reduced_density_matrix_helper of k distinct qubits in any order
\* returns the 2^k x 2^k matrix whose entry (r, c) is the sum, over the
\* 2^(N-k) values m of the complement qubits, of the entry of the density
\* matrix at the ket index with r on the qubits and m on the complement and
\* the bra index with c on the qubits and the same m.
C9_PartialTrace ==
  call.fn = "reduced_density_matrix_helper" =>
    LET DIM == 2 ^ Len(call.qubits)
    IN /\ ret.rows = DIM
       /\ ret.cols = DIM
       /\ DOMAIN ret.data = 0..(DIM * DIM - 1)
       /\ \A r, c \in 0..(DIM - 1) : ret.data[r + DIM * c] = PartialTrace(r, c)

\* the helper has traced one qubit out of a buffer a gate changed, the two
\* kept qubits listed in descending order
C9_Witness ==
  /\ call.fn = "reduced_density_matrix_helper"
  /\ Len(call.qubits) = nloc - 1
  /\ call.qubits[1] > call.qubits[2]
  /\ step = 2
  /\ pre.qreg \notin {ZeroState(NQC), RampState(NQC), GHZState(NQC)}
  /\ ret.data[1] # ret.data[2]

\* the last call is reduced_density_matrix of a list that holds every
\* qubit of the register once
AllQubitsListed ==
  /\ call.fn = "reduced_density_matrix"
  /\ Len(call.qubits) = nloc
  /\ \A q \in 0..(nloc - 1) : \E j \in 1..Len(call.qubits) : call.qubits[j] = q

Ascending == \A j \in 1..(Len(call.qubits) - 1) : call.qubits[j] < call.qubits[j + 1]

\* C10 as stated: reduced_density_matrix of a list that holds all the qubits
\* of the register returns the full density matrix.
C10_AllQubitsFull ==
  AllQubitsListed =>
    /\ ret.rows = 2 ^ nloc
    /\ ret.cols = 2 ^ nloc
    /\ ret.data = pre.qreg

\* C10, corrected: reduced_density_matrix of the list of all the qubits of
\* the register in ascending order returns the full density matrix; of the
\* list in another order it returns the matrix with the qubits reordered, its
\* entry (r, c) being the entry of the density matrix at the indices whose
\* bit qubits[j] is bit j of r and of c.
C10_AllQubitsAscendingFull ==
  AllQubitsListed =>
    /\ ret.rows = 2 ^ nloc
    /\ ret.cols = 2 ^ nloc
    /\ Ascending => ret.data = pre.qreg
    /\ \A r, c \in 0..(2 ^ nloc - 1) :
         ret.data[r + (2 ^ nloc) * c]
           = pre.qreg[FullIndex(r, 0) + (2 ^ nloc) * FullIndex(c, 0)]

\* the full matrix of a buffer that a gate changed and that is not symmetric,
\* copied out
C10_Witness ==
  /\ AllQubitsListed
  /\ Ascending
  /\ ~call.last_op
  /\ step = 2
  /\ pre.qreg \notin {ZeroState(NQC), RampState(NQC), GHZState(NQC)}
  /\ pre.qreg[1] # pre.qreg[2 ^ nloc]
  /\ ret.data = pre.qreg

(***************************************************************************)
(* SpecGate: a register of NQC qubits held in one chunk, updated by        *)
(* apply_op of the gates of the catalog.                                   *)
(***************************************************************************)
\* every name of gateset_, on qubits of the register
CatalogGateOps ==
  {GateOp(nm, <<0>>, <<>>) :
     nm \in {<<"i", "d">>, <<"d", "e", "l", "a", "y">>, <<"x">>, <<"y">>, <<"z">>,
             <<"s">>, <<"s", "d", "g">>, <<"h">>, <<"t">>, <<"t", "d", "g">>,
             <<"s", "x">>, <<"x", "9", "0">>, <<"s", "x", "d", "g">>}}
  \cup {GateOp(nm, <<NQC - 1>>, <<>>) : nm \in {<<"h">>, <<"y">>, <<"s", "x">>}}
  \cup {GateOp(nm, <<1>>, <<1>>) :
          nm \in {<<"r", "x">>, <<"r", "y">>, <<"r", "z">>, <<"p">>, <<"u", "1">>}}
  \cup {GateOp(nm, <<1>>, <<1, 3>>) : nm \in {<<"r">>, <<"u", "2">>}}
  \cup {GateOp(nm, <<1>>, <<1, 2, 3>>) : nm \in {<<"u", "3">>, <<"u">>, <<"U">>}}
  \cup {GateOp(nm, <<0, NQC - 1>>, <<>>) :
          nm \in {<<"c", "x">>, <<"C", "X">>, <<"c", "y">>, <<"c", "z">>,
                  <<"s", "w", "a", "p">>, <<"e", "c", "r">>}}
  \cup {GateOp(nm, <<NQC - 1, 1>>, <<>>) : nm \in {<<"c", "x">>, <<"c", "y">>}}
  \cup {GateOp(nm, <<1, 0>>, <<1>>) :
          nm \in {<<"c", "p">>, <<"c", "u", "1">>, <<"r", "x", "x">>,
                  <<"r", "y", "y">>, <<"r", "z", "z">>, <<"r", "z", "x">>}}
  \cup {GateOp(<<"c", "c", "x">>, qs, <<>>) : qs \in {<<0, 1, 2>>, <<2, 0, 1>>}}
  \cup {[GateOp(<<"p", "a", "u", "l", "i">>, <<0, NQC - 1>>, <<>>)
           EXCEPT !.string_params = <<ps>>] :
          ps \in {<<"X", "Y">>, <<"Y", "Y">>, <<"Z", "I">>}}

\* |0..0><0..0|, a pure state of trace 1 and a matrix of trace 2
GateInitStates ==
  {ZeroState(NQC), RampState(NQC),
   [g \in 0..(Pow2(2 * NQC) - 1) |-> Mul(Rat(2, 1), GHZState(NQC)[g])]}

InitGate ==
  /\ nloc = NQC
  /\ qreg \in GateInitStates
  /\ chunks = <<>>
  /\ creg = [memory |-> <<>>, register |-> <<>>]
  /\ result = <<>>
  /\ rng = <<>>
  /\ call = NoCall
  /\ ret = <<>>
  /\ err = NoError
  /\ log = <<>>
  /\ pre = <<>>
  /\ ub = FALSE
  /\ step = 0
  /\ omp = NoRegion

ApplyCatalogGate == \E op \in CatalogGateOps : ApplyOp(op, FALSE, NoRnd)

NextGate == ApplyCatalogGate

SpecGate == InitGate /\ [][NextGate]_vars

\* C13: apply_op of a gate of the catalog leaves the trace of the buffer as
\* it was, so that after every sequence of such gates the trace is the one
\* the sequence started from.
C13_TracePreserved ==
  call.fn = "apply_op" =>
    /\ err = NoError
    /\ dm_trace(qreg, nloc) = dm_trace(pre.qreg, nloc)

\* two gates applied to the matrix of trace 2, the second one changing it
C13_Witness ==
  /\ call.fn = "apply_op"
  /\ step = 2
  /\ err = NoError
  /\ ~ub
  /\ qreg # pre.qreg
  /\ qreg \notin GateInitStates
  /\ dm_trace(qreg, nloc) = Rat(2, 1)
(***************************************************************************)
(* SpecAmps: apply_save_amplitudes_sq with its loop run by a team of       *)
(* OpenMP threads.  A thread of the team takes an iteration no thread has  *)
(* taken, reads the probability from the buffer and writes its element of  *)
(* amps_sq, in three steps that interleave with those of the others; the   *)
(* call returns past the barrier that ends the loop.                       *)
(***************************************************************************)
\* the if clause of the omp parallel for
omp_enabled_by_threads(size, omp_qubit_threshold_, threads_) == threads_ > 1

omp_enabled(size, omp_qubit_threshold_, threads_) ==
  size > Pow2(omp_qubit_threshold_) /\ threads_ > 1

\* the save_amps_sq operations: every list of at most MaxAmps basis states
AmpsOps ==
  {[Op("save_amps_sq", SaveName, AllQubits, <<>>)
      EXCEPT !.string_params = <<"k">>, !.int_params = ip] :
     ip \in UNION {[1..len -> {1, Pow2(NQ) - 1}] : len \in 0..MaxAmps}}

Thresholds == 0..1

IdleThread == [pc |-> "idle", i |-> 0, val |-> Zero]

InitAmps ==
  /\ nloc = NQ
  /\ qreg \in {RampState(NQ)}
  /\ chunks = <<>>
  /\ creg = [memory |-> <<>>, register |-> <<>>]
  /\ result = <<>>
  /\ rng = <<>>
  /\ call = NoCall
  /\ ret = <<>>
  /\ err = NoError
  /\ log = <<>>
  /\ pre = <<>>
  /\ ub = FALSE
  /\ step = 0
  /\ omp = NoRegion

\* the call up to the loop: the test of the params, amps_sq(size) and the
\* team, of one thread unless the if clause holds and of at most threads_
AmpsSqCall ==
  /\ step = 0
  /\ omp = NoRegion
  /\ \E op \in AmpsOps, threads_ \in 1..MaxThreads, omp_qubit_threshold_ \in Thresholds :
       LET size == Len(op.int_params)
           c == [fn |-> "apply_save_amplitudes_sq", op |-> op, threads_ |-> threads_,
                 omp_qubit_threshold_ |-> omp_qubit_threshold_]
       IN IF size = 0
          THEN Becomes(apply_save_amplitudes_sq(Current, op), c, <<>>)
          ELSE /\ \E team \in 1..threads_ :
                    /\ team > 1 => omp_enabled(size, omp_qubit_threshold_, threads_)
                    /\ omp' = [pc |-> "loop", team |-> team,
                               amps_sq |-> [i \in 0..(size - 1) |-> Zero],
                               taken |-> {}, writes |-> <<>>,
                               thread |-> [w \in 1..team |-> IdleThread]]
               /\ call' = c
               /\ pre' = Snapshot
               /\ err' = NoError
               /\ log' = <<>>
               /\ UNCHANGED <<qreg, chunks, nloc, creg, result, rng, ret, ub, step>>

InLoop == omp # NoRegion /\ omp.pc = "loop"

\* a thread takes an iteration of the loop
AmpsSqTake ==
  /\ InLoop
  /\ \E w \in 1..omp.team :
       /\ omp.thread[w].pc = "idle"
       /\ \E i \in (0..(Len(call.op.int_params) - 1)) \ omp.taken :
            omp' = [omp EXCEPT !.taken = @ \cup {i},
                               !.thread[w] = [pc |-> "read", i |-> i, val |-> Zero]]
  /\ UNCHANGED <<qreg, chunks, nloc, creg, result, rng, call, ret, err, log, pre, ub, step>>

\* qreg_.probability(op.int_params[i])
AmpsSqRead ==
  /\ InLoop
  /\ \E w \in 1..omp.team :
       /\ omp.thread[w].pc = "read"
       /\ omp' = [omp EXCEPT !.thread[w].pc = "write",
                             !.thread[w].val =
                                dm_probability(qreg, nloc,
                                               call.op.int_params[omp.thread[w].i + 1])]
  /\ UNCHANGED <<qreg, chunks, nloc, creg, result, rng, call, ret, err, log, pre, ub, step>>

\* amps_sq[i] = ...
AmpsSqWrite ==
  /\ InLoop
  /\ \E w \in 1..omp.team :
       /\ omp.thread[w].pc = "write"
       /\ omp' = [omp EXCEPT !.amps_sq[omp.thread[w].i] = omp.thread[w].val,
                             !.writes = Append(@, <<w, omp.thread[w].i>>),
                             !.thread[w] = IdleThread]
  /\ UNCHANGED <<qreg, chunks, nloc, creg, result, rng, call, ret, err, log, pre, ub, step>>

\* past the barrier: amps_sq goes to the result sink and the call returns
AmpsSqReturn ==
  /\ InLoop
  /\ omp.taken = 0..(Len(call.op.int_params) - 1)
  /\ \A w \in 1..omp.team : omp.thread[w].pc = "idle"
  /\ result' = save_data_average(result, call.op.string_params[1], omp.amps_sq,
                                 call.op.type, call.op.save_type)
  /\ omp' = [omp EXCEPT !.pc = "returned"]
  /\ step' = step + 1
  /\ UNCHANGED <<qreg, chunks, nloc, creg, rng, call, ret, err, log, pre, ub>>

NextAmps == AmpsSqCall \/ AmpsSqTake \/ AmpsSqRead \/ AmpsSqWrite \/ AmpsSqReturn

SpecAmps == InitAmps /\ [][NextAmps]_vars

\* the writes of the loop so far to element i of amps_sq
WritesTo(i) == {k \in DOMAIN omp.writes : omp.writes[k][2] = i}

\* what the call gives with the loop run in order by one thread
Sequential ==
  apply_save_amplitudes_sq([SingleChunk(pre.qreg, nloc) EXCEPT !.result = pre.result],
                           call.op).result

\* C14: with the loop of apply_save_amplitudes_sq run by a team, whatever
\* the threads and their interleaving, the team has more than one thread
\* only if the amplitudes asked for are more than 2^omp_qubit_threshold_ and
\* threads_ is more than 1, the buffer is not modified, no element of
\* amps_sq is written twice, a written element i is
\* probability(int_params[i]), and at the return every element was written
\* once and the result sink holds what the sequential loop gives.
C14_ParallelAmplitudes ==
  omp # NoRegion =>
    /\ omp.team > 1 =>
         /\ Len(call.op.int_params) > Pow2(call.omp_qubit_threshold_)
         /\ call.threads_ > 1
    /\ qreg = pre.qreg
    /\ \A i \in DOMAIN omp.amps_sq :
         /\ Cardinality(WritesTo(i)) <= 1
         /\ WritesTo(i) # {} =>
              omp.amps_sq[i] = dm_probability(pre.qreg, nloc, call.op.int_params[i + 1])
    /\ omp.pc = "returned" =>
         /\ \A i \in DOMAIN omp.amps_sq : Cardinality(WritesTo(i)) = 1
         /\ result = Sequential

\* a loop of MaxAmps iterations returned, run by a team of several threads
\* more than one of which wrote an element, the last element written first
C14_Witness ==
  /\ omp # NoRegion
  /\ omp.pc = "returned"
  /\ omp.team > 1
  /\ Len(omp.writes) = MaxAmps
  /\ Cardinality({omp.writes[k][1] : k \in DOMAIN omp.writes}) > 1
  /\ omp.writes[1][2] = MaxAmps - 1
  /\ omp.amps_sq[0] # omp.amps_sq[MaxAmps - 1]
  /\ Len(result) = 1

(***************************************************************************)
(* SpecPauli: a register of NQ qubits held in one chunk, updated by        *)
(* apply_pauli.                                                            *)
(***************************************************************************)
PauliLetters == {"I", "X", "Y", "Z"}

\* the qubit lists and, for each, every Pauli string of its length
PauliInputs ==
  {<<qs, ps>> : qs \in QubitTuples(1, NQ), ps \in [1..1 -> PauliLetters]}
  \cup {<<qs, ps>> : qs \in QubitTuples(2, NQ), ps \in [1..2 -> PauliLetters]}

InitPauli ==
  /\ nloc = NQ
  /\ qreg \in {RampState(NQ), GHZState(NQ)}
  /\ chunks = <<>>
  /\ creg = [memory |-> <<>>, register |-> <<>>]
  /\ result = <<>>
  /\ rng = <<>>
  /\ call = NoCall
  /\ ret = <<>>
  /\ err = NoError
  /\ log = <<>>
  /\ pre = <<>>
  /\ ub = FALSE
  /\ step = 0
  /\ omp = NoRegion

ApplyPauli ==
  /\ CanCall
  /\ \E in \in PauliInputs :
       Becomes(apply_pauli(Current, in[1], in[2]),
               [fn |-> "apply_pauli", qubits |-> in[1], pauli |-> in[2]], <<>>)

NextPauli == ApplyPauli

SpecPauli == InitPauli /\ [][NextPauli]_vars

\* the gate of a letter of a Pauli string
LetterGate(c, q) ==
  GateOp(CASE c = "X" -> <<"x">> [] c = "Y" -> <<"y">> [] c = "Z" -> <<"z">>
           [] OTHER -> <<"i", "d">>, <<q>>, <<>>)

\* apply_gate of the gate of each letter, qubit by qubit from qubits[t] on:
\* the letter of qubits[t] is the t-th from the end of the string
RECURSIVE OneQubitAtATime(_, _, _, _)
OneQubitAtATime(S, qubits, pauli, t) ==
  IF t > Len(qubits) THEN S
  ELSE OneQubitAtATime(apply_gate(S, LetterGate(pauli[Len(qubits) + 1 - t], qubits[t])),
                       qubits, pauli, t + 1)

OddY(pauli) == Cardinality({i \in DOMAIN pauli : pauli[i] = "Y"}) % 2 = 1

\* C15: apply_pauli(qubits, P) makes one call of the buffer's apply_pauli, on
\* the ket and the bra bit of every listed qubit with the string P+P and the
\* coefficient -1 when P has an odd number of Y and +1 otherwise, and the
\* buffer it leaves is the one the gates x, y, z of the letters of P leave
\* when applied one qubit at a time.
C15_PauliBothSides ==
  call.fn = "apply_pauli" =>
    /\ err = NoError
    /\ ~ub
    /\ log = << [side |-> "sv", fn |-> "apply_pauli",
                 qubits |-> call.qubits \o [t \in DOMAIN call.qubits |->
                                              call.qubits[t] + nloc],
                 arg |-> <<call.pauli \o call.pauli,
                           IF OddY(call.pauli) THEN MinusOne ELSE One>>] >>
    /\ qreg = OneQubitAtATime(SingleChunk(pre.qreg, nloc), call.qubits,
                              call.pauli, 1).buf

\* a string with one Y and another letter applied to two qubits, after
\* another string
C15_Witness ==
  /\ call.fn = "apply_pauli"
  /\ step = 2
  /\ Len(call.qubits) = 2
  /\ OddY(call.pauli)
  /\ "X" \in {call.pauli[i] : i \in DOMAIN call.pauli}
  /\ qreg # pre.qreg
  /\ err = NoError
====
